---- MODULE Spec2Model ----
(***************************************************************************)
(* Opulse: operator registry (OperatorManager), recursion bookkeeping      *)
(* (OperatorGenerator) and the generation batch (generate_operator_type).  *)
(*                                                                         *)
(* A procedure source (op_compute_func / op_count_func) is a Python text.  *)
(* The registry only ever reads and rewrites the operator-id tokens of     *)
(* that text (op_<n>, op_count_<n>), so a source is modelled by those      *)
(* tokens: the header token (with or without its leading "def ") and the   *)
(* set of id tokens of the body.  An id token is kept as the number its    *)
(* decimal digits spell, and the regular-expression rewrites work on the   *)
(* decimal digits, as re.sub does on the text.                             *)
(***************************************************************************)
EXTENDS Integers, Sequences, FiniteSets, TLC

\* ---------------------------------------------------------------- bounds
\* number of records in a loaded store
MaxOps == 4
\* number of records of a loaded store whose procedure calls itself
MaxSelfRef == 1
\* number of operators one generate_operator_type call is asked for
MaxNum == 2
\* number of loop iterations of one generate_operator_type call
MaxAttempts == 2
\* number of distinct operators one generated definition calls
MaxCalls == 2
\* the largest numeral base generate_base_operators makes an operator for
MaxBase == 2
\* the ids a loaded store can carry (the decimal text of 20 starts with "2")
IdPool == {1, 2, 3, 20, 21}

VARIABLES
    operators,      \* OperatorManager.operators: id key -> record
    pre,            \* operators as they were when the last operation began
    last,           \* the last operation: its name, argument and outcome
    exercised,      \* per record: the recursive call-patterns that were granted
    symbol_to_operators,    \* OperatorManager.symbol_to_operators: the records listed
    available_funcs,        \* OperatorManager.available_funcs: the ids n of its op_<n> names
    operator_type,  \* generate_operator_type: its operator_type argument
    num,            \* generate_operator_type: its num argument
    generated_count,        \* generate_operator_type: its local counter
    attempts,       \* generate_operator_type: loop iterations begun so far
    temp_file,      \* the records save_operator_to_temp appended, in order
    pc,             \* generate_operator_type: not called, at the loop head, returned, raised
    base_operators, \* OperatorManager.base_operators: the <<base, record>> entries
    final_file,     \* the records save_operators_to_jsonl wrote, in order
    tree,           \* the expression tree handed to, or returned by, the last expression call
    priority,       \* OperatorInfo.priority of each expression operator, by symbol
    associativity_direction,    \* OperatorInfo.associativity_direction, by symbol
    with_all_brackets,      \* ExpressionEvaluator.with_all_brackets
    expr_result,    \* what the last expression call returned or raised
    binary_ops,     \* ExpressionGenerator.binary_ops
    unary_prefix_ops,       \* ExpressionGenerator.unary_prefix_ops
    unary_postfix_ops,      \* ExpressionGenerator.unary_postfix_ops
    frames          \* generate_expression calls on the interpreter's stack

regVars == <<operators, pre, last>>
indexVars == <<symbol_to_operators, available_funcs, base_operators>>
batchVars == <<operator_type, num, generated_count, attempts, temp_file, pc, final_file>>
vars == <<operators, pre, last, exercised, symbol_to_operators, available_funcs,
          operator_type, num, generated_count, attempts, temp_file, pc,
          base_operators, final_file, tree, priority, associativity_direction,
          with_all_brackets, expr_result, binary_ops, unary_prefix_ops,
          unary_postfix_ops, frames>>
exprVars == <<tree, priority, associativity_direction, with_all_brackets, expr_result,
              binary_ops, unary_prefix_ops, unary_postfix_ops, frames>>

\* ------------------------------------------------------- optional values
\* Python None for an optional integer: the empty sequence; <<n>> otherwise
NoneInt == <<>>
Some(n) == <<n>>
IsNone(v) == v = <<>>
Val(v) == v[1]

\* a procedure source that is None
NoSrc == [present |-> FALSE, def |-> FALSE, hdr |-> 0, calls |-> {}]
\* "def op_<n>(..): ... op_<c>(..) ..." for c in calls
Src(n, calls) == [present |-> TRUE, def |-> TRUE, hdr |-> n, calls |-> calls]

\* ------------------------------------------------------ decimal id text
Pow10(k) == IF k = 0 THEN 1 ELSE IF k = 1 THEN 10 ELSE IF k = 2 THEN 100 ELSE 1000
DigitShifts == 0..3

\* the text "op_<old>" matches at the token op_<d>: str(old) is a prefix of str(d)
IsTextPrefix(old, d) == \E k \in DigitShifts : d \div Pow10(k) = old

\* re.sub(rf"op_{old}", f"op_{new}", ..) on one token op_<d>
SubId(old, new, d) ==
    IF IsTextPrefix(old, d)
    THEN LET k == CHOOSE j \in DigitShifts : d \div Pow10(j) = old
         IN new * Pow10(k) + (d % Pow10(k))
    ELSE d

\* re.sub(r"def op_(\d+)", f"op_{i}", src, count=1): the whole match, "def "
\* included, is replaced by "op_<i>"
SubDefHeader(src, i) ==
    IF src.def THEN [src EXCEPT !.def = FALSE, !.hdr = i] ELSE src

\* re.sub(rf"op_{old_key}", f"op_{i}", src): every token of the text
SubCalls(src, old, new) ==
    [src EXCEPT !.hdr = SubId(old, new, src.hdr),
                !.calls = {SubId(old, new, c) : c \in src.calls}]

\* re.findall(r"op_(\d+)", src): the ids of all tokens, the header's included
FindAllIds(src) == {src.hdr} \cup src.calls

\* ---------------------------------------------------------- the registry
\* extract_op_dependencies: the new dependency list of op_id
ExtractedDependencies(ops, op_id) == FindAllIds(ops[op_id].op_compute_func) \ {op_id}

ExtractOpDependencies(ops, op_id) ==
    [ops EXCEPT ![op_id].dependencies = ExtractedDependencies(ops, op_id),
                ![op_id].deps_set = TRUE]

Max(S) == CHOOSE x \in S : \A y \in S : y <= x

\* calculate_order can evaluate max(dependency_orders): every dependency is a
\* key, and max() of a list with None in it raises unless it is the only element
OrderComputable(ops, operator_id) ==
    LET o == ops[operator_id]
        deps == o.dependencies
    IN  \/ ~o.deps_set
        \/ deps = {}
        \/ /\ deps \subseteq DOMAIN ops
           /\ \/ \A d \in deps : ~IsNone(ops[d].n_order)
              \/ /\ Cardinality(deps) = 1
                 /\ o.definition_type # "recursive_definition"

\* an order that takes the least dependency order instead of the greatest
OrderOfLeast(ops, operator_id) ==
    LET o == ops[operator_id]
        deps == o.dependencies
    IN  IF ~o.deps_set \/ deps = {} THEN Some(1)
        ELSE IF \E d \in deps : IsNone(ops[d].n_order) THEN NoneInt
        ELSE LET m == CHOOSE x \in {Val(ops[d].n_order) : d \in deps} :
                          \A d \in deps : x <= Val(ops[d].n_order)
             IN IF o.definition_type = "recursive_definition" THEN Some(m + 1) ELSE Some(m)

\* calculate_order: the value assigned to n_order
OrderOf(ops, operator_id) ==
    LET o == ops[operator_id]
        deps == o.dependencies
    IN  IF ~o.deps_set \/ deps = {} THEN Some(1)
        ELSE IF \E d \in deps : IsNone(ops[d].n_order) THEN NoneInt
        ELSE LET m == Max({Val(ops[d].n_order) : d \in deps})
             IN IF o.definition_type = "recursive_definition" THEN Some(m + 1) ELSE Some(m)

CalculateOrder(ops, operator_id) ==
    IF operator_id \notin DOMAIN ops THEN ops
    ELSE [ops EXCEPT ![operator_id].n_order = OrderOf(ops, operator_id)]

\* a cascade that stops at the direct dependents
FindDirectDependentsOnly(ops, op_id, to_delete_ids) ==
    to_delete_ids \cup {op_id}
        \cup {ops[k].id : k \in {j \in DOMAIN ops : op_id \in ops[j].dependencies}}

\* _find_all_dependent_operator_ids(op_id, to_delete_ids): the set afterwards
RECURSIVE FindAllDependentOperatorIds(_, _, _), FindOverDependents(_, _, _)
FindAllDependentOperatorIds(ops, op_id, to_delete_ids) ==
    IF op_id \in to_delete_ids THEN to_delete_ids
    ELSE FindOverDependents(
             ops,
             {ops[k].id : k \in {j \in DOMAIN ops : op_id \in ops[j].dependencies}},
             to_delete_ids \cup {op_id})

\* the for loop of _find_all_dependent_operator_ids over the dependents
FindOverDependents(ops, ids, to_delete_ids) ==
    IF ids = {} THEN to_delete_ids
    ELSE LET x == CHOOSE y \in ids : TRUE
         IN FindOverDependents(ops, ids \ {x},
                               FindAllDependentOperatorIds(ops, x, to_delete_ids))

\* remove_operator on each id of a set: the records left in self.operators
RemoveAll(ops, ids) == [k \in (DOMAIN ops) \ ids |-> ops[k]]

\* a rewrite of the procedure texts that leaves the dependency list alone
RewriteDependentTextOnly(o, old_key, i) ==
    IF old_key \in o.dependencies
    THEN [o EXCEPT !.op_compute_func = SubCalls(o.op_compute_func, old_key, i),
                   !.op_count_func = SubCalls(o.op_count_func, old_key, i)]
    ELSE o

\* delete_one_operator, lines 637-651: the rewrite of one record that lists
\* old_key among its dependencies
RewriteDependent(o, old_key, i) ==
    IF old_key \in o.dependencies
    THEN [o EXCEPT !.dependencies = {IF dep = old_key THEN i ELSE dep : dep \in o.dependencies},
                   !.op_compute_func = SubCalls(o.op_compute_func, old_key, i),
                   !.op_count_func = SubCalls(o.op_count_func, old_key, i)]
    ELSE o

\* a move that forgets to update the record's id field
MoveRecordKeepId(o, i) ==
    [o EXCEPT !.op_compute_func = SubDefHeader(o.op_compute_func, i),
              !.op_count_func = SubDefHeader(o.op_count_func, i)]

\* delete_one_operator, lines 620-636: the record moved from old_key to key i
MoveRecord(o, i) ==
    [o EXCEPT !.id = i,
              !.op_compute_func = SubDefHeader(o.op_compute_func, i),
              !.op_count_func = SubDefHeader(o.op_count_func, i)]

\* delete_one_operator, one pass of the loop at line 619
RenumberStep(ops, i, old_key) ==
    IF old_key = i THEN ops
    ELSE LET moved == MoveRecord(ops[old_key], i)
             placed == [k \in (DOMAIN ops) \cup {i} |-> IF k \in {i, old_key} THEN moved ELSE ops[k]]
             rewritten == [k \in DOMAIN placed |-> RewriteDependent(placed[k], old_key, i)]
         IN [k \in (DOMAIN rewritten) \ {old_key} |-> rewritten[k]]

\* sorted(self.operators.keys())
RECURSIVE SortedKeys(_)
SortedKeys(S) ==
    IF S = {} THEN <<>>
    ELSE LET m == CHOOSE x \in S : \A y \in S : x <= y
         IN <<m>> \o SortedKeys(S \ {m})

\* delete_one_operator, the loop at line 619 from position i on
RECURSIVE Renumber(_, _, _)
Renumber(ops, sorted_keys, i) ==
    IF i > Len(sorted_keys) THEN ops
    ELSE Renumber(RenumberStep(ops, i, sorted_keys[i]), sorted_keys, i + 1)

\* delete_one_operator(op_id) on an existing id: self.operators afterwards
DeleteOneOperator(ops, op_id) ==
    LET left == RemoveAll(ops, FindAllDependentOperatorIds(ops, op_id, {}))
    IN Renumber(left, SortedKeys(DOMAIN left), 1)

\* ------------------------------------------------- a loaded record store
\* OperatorInfo.__init__ for a record with procedures
Record(uid, id, n_ary, kind, compute, count) ==
    [uid |-> uid, id |-> id, symbol |-> uid, n_ary |-> n_ary,
     unary_position |-> IF n_ary = 1 THEN "prefix" ELSE "None",
     is_base |-> NoneInt, definition_type |-> kind, n_order |-> NoneInt,
     op_compute_func |-> compute, op_count_func |-> count,
     dependencies |-> {}, deps_set |-> FALSE, is_temporary |-> FALSE,
     recursive_used_cases |-> 0, is_recursion_enabled |-> TRUE]

\* the stores load_operators can read: every record references only ids below
\* its own (an id is assigned as max+1, after the operators it calls) and
\* possibly itself (a recursive definition); its dependency list and order are
\* the ones extract_op_dependencies and calculate_order gave it
KeySets == {K \in SUBSET IdPool : Cardinality(K) <= MaxOps}

RECURSIVE OrderAll(_, _, _)
OrderAll(ops, sorted_keys, i) ==
    IF i > Len(sorted_keys) THEN ops
    ELSE OrderAll(CalculateOrder(ExtractOpDependencies(ops, sorted_keys[i]), sorted_keys[i]),
                  sorted_keys, i + 1)

LoadedStore(K, callsOf) ==
    LET raw == [k \in K |->
                   Record(k, k, 2,
                          IF k \in callsOf[k] THEN "recursive_definition" ELSE "simple_definition",
                          Src(k, callsOf[k]), Src(k, callsOf[k]))]
    IN OrderAll(raw, SortedKeys(K), 1)

NoOp == [op |-> "none", arg |-> 0, ok |-> TRUE]

\* the records of a registry by object identity, and the key of one
Uids(ops) == {ops[k].uid : k \in DOMAIN ops}
KeyOf(ops, u) == CHOOSE k \in DOMAIN ops : ops[k].uid = u

\* load_operators: every loaded record is listed under its symbol, and
\* _update_available_funcs registers the names of those with a procedure
LoadedIndexes ==
    /\ symbol_to_operators = Uids(operators)
    /\ available_funcs = {k \in DOMAIN operators : operators[k].op_compute_func.present}
    /\ base_operators = {<<Val(operators[k].is_base), operators[k].uid>> :
                             k \in {j \in DOMAIN operators : ~IsNone(operators[j].is_base)}}

\* no expression has been generated, rendered or folded
NoExpr ==
    /\ tree = <<"None">>
    /\ priority = <<>>
    /\ associativity_direction = <<>>
    /\ with_all_brackets = FALSE
    /\ expr_result = <<"None">>
    /\ binary_ops = {}
    /\ unary_prefix_ops = {}
    /\ unary_postfix_ops = {}
    /\ frames = 0

\* generate_operator_type has not been called
NoBatch ==
    /\ operator_type = "simple_definition"
    /\ num = 0
    /\ generated_count = 0
    /\ attempts = 0
    /\ temp_file = <<>>
    /\ pc = "idle"
    /\ final_file = <<>>

InitDel ==
    /\ \E K \in KeySets :
         \E callsOf \in [K -> SUBSET K] :
            /\ \A k \in K : \A c \in callsOf[k] : c <= k
            /\ Cardinality({k \in K : k \in callsOf[k]}) <= MaxSelfRef
            /\ operators = LoadedStore(K, callsOf)
    /\ pre = operators
    /\ last = NoOp
    /\ exercised = [u \in Uids(operators) |-> {}]
    /\ LoadedIndexes
    /\ NoBatch
    /\ NoExpr

\* delete_one_operator(op_id), op_id in the registry
DeleteCascade(op_id) ==
    /\ op_id \in DOMAIN operators
    /\ \A k \in DOMAIN operators : operators[k].deps_set /\ operators[k].op_compute_func.present
    /\ operators' = DeleteOneOperator(operators, op_id)
    /\ pre' = operators
    /\ UNCHANGED exprVars
    /\ last' = [op |-> "delete_cascade", arg |-> op_id, ok |-> TRUE]
    /\ LET to_delete_ids == FindAllDependentOperatorIds(operators, op_id, {})
       IN /\ symbol_to_operators' =
                symbol_to_operators \ {operators[k].uid : k \in to_delete_ids}
          /\ available_funcs' = available_funcs \ to_delete_ids
    /\ UNCHANGED <<exercised, base_operators, batchVars>>

\* delete_one_operator(op_id), op_id not in the registry: ValueError
DeleteCascadeUnknown(op_id) ==
    /\ op_id \notin DOMAIN operators
    /\ operators' = operators
    /\ pre' = operators
    /\ UNCHANGED exprVars
    /\ last' = [op |-> "delete_cascade", arg |-> op_id, ok |-> FALSE]
    /\ UNCHANGED <<exercised, indexVars, batchVars>>

NextDel ==
    \/ \E op_id \in IdPool : DeleteCascade(op_id)
    \/ \E op_id \in IdPool : DeleteCascadeUnknown(op_id)

SpecDel == InitDel /\ [][NextDel]_vars

\* -------------------------------------------- recursion-usage bookkeeping
\* self.param_config.atoms['left_operand'], ['right_operand']
LeftOperand == "a"
RightOperand == "b"

\* param_order arguments: None, or a pair over result / a / b
NoParamOrder == <<>>
ParamOrders == {<<x, y>> : x, y \in {"result", LeftOperand, RightOperand}} \cup {NoParamOrder}
OpTypes == {"binary", "unary"}

\* 0b00000011, 0b11111111
UnarySaturated == 3
BinarySaturated == 255

Pow2(b) == IF b = 0 THEN 1 ELSE IF b = 1 THEN 2 ELSE IF b = 2 THEN 4 ELSE IF b = 3 THEN 8
           ELSE IF b = 4 THEN 16 ELSE IF b = 5 THEN 32 ELSE IF b = 6 THEN 64 ELSE 128
\* (recursive_used_cases & (1 << bit_position)) != 0
BitIsSet(mask, b) == (mask \div Pow2(b)) % 2 = 1

\* a saturation test that counts the binary-caller patterns only
SetBitIfNotSetEarly(o, bit_position) ==
    IF ~BitIsSet(o.recursive_used_cases, bit_position)
    THEN LET m == o.recursive_used_cases + Pow2(bit_position)
         IN [o |-> [o EXCEPT !.recursive_used_cases = m,
                             !.is_recursion_enabled =
                                 IF \/ (o.n_ary = 1 /\ m % 2 = 1)
                                    \/ (o.n_ary = 2 /\ m % 32 = 31)
                                 THEN FALSE ELSE @],
             ret |-> TRUE]
    ELSE [o |-> o, ret |-> FALSE]

\* set_bit_if_not_set(called_operator_info, bit_position): the record
\* afterwards and the value returned
SetBitIfNotSet(o, bit_position) ==
    IF ~BitIsSet(o.recursive_used_cases, bit_position)
    THEN LET m == o.recursive_used_cases + Pow2(bit_position)
         IN [o |-> [o EXCEPT !.recursive_used_cases = m,
                             !.is_recursion_enabled =
                                 IF \/ (o.n_ary = 1 /\ m = UnarySaturated)
                                    \/ (o.n_ary = 2 /\ m = BinarySaturated)
                                 THEN FALSE ELSE @],
             ret |-> TRUE]
    ELSE [o |-> o, ret |-> FALSE]

\* a table that hands ('b', 'result') the bit of ('a', 'result')
BitOfCaseShared(op_type, n_ary, param_order) ==
    IF op_type = "binary" /\ n_ary = 2
    THEN CASE param_order = <<"result", "result">> -> Some(0)
           [] param_order = <<"result", LeftOperand>> -> Some(1)
           [] param_order = <<"result", RightOperand>> -> Some(2)
           [] param_order = <<LeftOperand, "result">> -> Some(3)
           [] param_order = <<RightOperand, "result">> -> Some(3)
           [] OTHER -> NoneInt
    ELSE IF op_type = "unary" /\ n_ary = 2
    THEN CASE param_order = <<"result", "result">> -> Some(5)
           [] param_order = <<"result", LeftOperand>> -> Some(6)
           [] param_order = <<LeftOperand, "result">> -> Some(7)
           [] OTHER -> NoneInt
    ELSE IF op_type = "binary" THEN Some(0) ELSE Some(1)

\* check_and_set_recursion_validity: the bit position handed to
\* set_bit_if_not_set for (op_type, callee arity, param_order); None when no
\* inner branch matches, and the call then returns None
BitOfCase(op_type, n_ary, param_order) ==
    IF op_type = "binary" /\ n_ary = 2
    THEN CASE param_order = <<"result", "result">> -> Some(0)
           [] param_order = <<"result", LeftOperand>> -> Some(1)
           [] param_order = <<"result", RightOperand>> -> Some(2)
           [] param_order = <<LeftOperand, "result">> -> Some(3)
           [] param_order = <<RightOperand, "result">> -> Some(4)
           [] OTHER -> NoneInt
    ELSE IF op_type = "unary" /\ n_ary = 2
    THEN CASE param_order = <<"result", "result">> -> Some(5)
           [] param_order = <<"result", LeftOperand>> -> Some(6)
           [] param_order = <<LeftOperand, "result">> -> Some(7)
           [] OTHER -> NoneInt
    ELSE IF op_type = "binary" THEN Some(0) ELSE Some(1)

\* check_and_set_recursion_validity(called_operator_info, op_type, param_order):
\* the record afterwards and the value returned ("None" for no return value)
CheckAndSetRecursionValidity(o, op_type, param_order) ==
    LET bit == BitOfCase(op_type, o.n_ary, param_order)
    IN IF IsNone(bit) THEN [o |-> o, ret |-> "None"]
       ELSE LET r == SetBitIfNotSet(o, Val(bit))
            IN [o |-> r.o, ret |-> IF r.ret THEN "True" ELSE "False"]

\* a callee selection that forgets the filter on is_recursion_enabled
AllOperatorKeys(ops) == DOMAIN ops

\* get_random_recursive_call_operator: the keys random.choice draws from
RecursiveOperators(ops) == {k \in DOMAIN ops : ops[k].is_recursion_enabled}

\* the call-pattern a check is about: for a unary callee the caller's arity,
\* for a binary callee the caller's arity and the parameter routing
Pattern(op_type, n_ary, param_order) ==
    IF n_ary = 1 THEN <<op_type>> ELSE <<op_type, param_order>>

\* the routings generate_recursive_operator_data_by_loop draws from for a
\* binary callee (the caller is always binary, line 701)
LoopParamOrders ==
    {<<"result", "result">>, <<"result", LeftOperand>>, <<"result", RightOperand>>,
     <<LeftOperand, "result">>, <<RightOperand, "result">>}

\* the store of the bookkeeping runs: a binary and a unary operator
RecStore ==
    (1 :> [Record(1, 1, 2, "simple_definition", Src(1, {}), Src(1, {}))
              EXCEPT !.deps_set = TRUE, !.n_order = Some(1)])
    @@ (2 :> [Record(2, 2, 1, "simple_definition", Src(2, {}), Src(2, {}))
              EXCEPT !.deps_set = TRUE, !.n_order = Some(1)])

InitRec ==
    /\ operators = RecStore
    /\ pre = operators
    /\ last = NoOp
    /\ exercised = [u \in Uids(operators) |-> {}]
    /\ LoadedIndexes
    /\ NoBatch
    /\ NoExpr

\* a direct call check_and_set_recursion_validity(operators[c], op_type, param_order)
CheckAndSet(c, op_type, param_order) ==
    /\ c \in DOMAIN operators
    /\ LET o == operators[c]
           r == CheckAndSetRecursionValidity(o, op_type, param_order)
           pat == Pattern(op_type, o.n_ary, param_order)
       IN /\ operators' = [operators EXCEPT ![c] = r.o]
          /\ last' = [op |-> "check_and_set", arg |-> c, ok |-> TRUE, ret |-> r.ret,
                      pattern |-> pat, fresh |-> pat \notin exercised[o.uid],
                      bit |-> BitOfCase(op_type, o.n_ary, param_order)]
          /\ exercised' = IF r.ret = "True"
                          THEN [exercised EXCEPT ![o.uid] = @ \cup {pat}]
                          ELSE exercised
    /\ pre' = operators
    /\ UNCHANGED exprVars
    /\ UNCHANGED <<indexVars, batchVars>>

\* get_random_recursive_call_operator() returning operators[c]
GetRandomRecursiveCallOperator(c) ==
    /\ c \in RecursiveOperators(operators)
    /\ last' = [op |-> "get_random", arg |-> c, ok |-> TRUE]
    /\ pre' = operators
    /\ UNCHANGED exprVars
    /\ UNCHANGED <<operators, exercised, indexVars, batchVars>>

\* get_random_recursive_call_operator() raising ValueError: no operator at
\* all, or none with recursion enabled
GetRandomRecursiveCallOperatorFails ==
    /\ RecursiveOperators(operators) = {}
    /\ last' = [op |-> "get_random", arg |-> 0, ok |-> FALSE]
    /\ pre' = operators
    /\ UNCHANGED exprVars
    /\ UNCHANGED <<operators, exercised, indexVars, batchVars>>

\* generate_recursive_operator_data_by_loop() with callee operators[c] and,
\* for a binary callee, the routing param_order
GenerateRecursiveOperatorDataByLoop(c, param_order) ==
    /\ c \in RecursiveOperators(operators)
    /\ LET o == operators[c]
           po == IF o.n_ary = 2 THEN param_order ELSE NoParamOrder
           r == CheckAndSetRecursionValidity(o, "binary", po)
           pat == Pattern("binary", o.n_ary, po)
       IN /\ o.n_ary = 2 => param_order \in LoopParamOrders
          /\ o.n_ary = 1 => param_order = NoParamOrder
          /\ operators' = [operators EXCEPT ![c] = r.o]
          /\ last' = [op |-> "generate_loop", arg |-> c, ok |-> TRUE,
                      ret |-> IF r.ret = "True" THEN "data" ELSE "None",
                      pattern |-> pat, fresh |-> pat \notin exercised[o.uid],
                      bit |-> BitOfCase("binary", o.n_ary, po)]
          /\ exercised' = IF r.ret = "True"
                          THEN [exercised EXCEPT ![o.uid] = @ \cup {pat}]
                          ELSE exercised
    /\ pre' = operators
    /\ UNCHANGED exprVars
    /\ UNCHANGED <<indexVars, batchVars>>

NextRec ==
    \/ \E c \in DOMAIN operators, t \in OpTypes, po \in ParamOrders : CheckAndSet(c, t, po)
    \/ \E c \in DOMAIN operators : GetRandomRecursiveCallOperator(c)
    \/ GetRandomRecursiveCallOperatorFails
    \/ \E c \in DOMAIN operators, po \in ParamOrders : GenerateRecursiveOperatorDataByLoop(c, po)
    \/ \E op_id \in DOMAIN operators : DeleteCascade(op_id)

SpecRec == InitRec /\ [][NextRec]_vars

\* the generator is asked for a recursive-by-loop candidate again and again:
\* a run does not stop calling generate_recursive_operator_data_by_loop
Synthesise ==
    \/ \E c \in DOMAIN operators, po \in ParamOrders :
          GenerateRecursiveOperatorDataByLoop(c, po)
    \/ GetRandomRecursiveCallOperatorFails

SpecRecFair == SpecRec /\ WF_vars(Synthesise)

\* ------------------------------------------------ generate_operator_type
DefinitionTypes == {"simple_definition", "branch_definition", "recursive_definition"}

\* what a procedure does on the tested integer inputs: returns an integer or
\* 'NaN' on all of them, raises on one, or returns another kind of value
Behaviours == {"ok", "raises", "bad_value"}

\* get_next_operator_id, and add_operator's max(keys, default=0) + 1
GetNextOperatorId(ops) == IF DOMAIN ops = {} THEN 1 ELSE Max(DOMAIN ops) + 1

\* add_operator(operator_data): self.operators afterwards
AddOperator(ops, operator_data) ==
    (operator_data.id :> [operator_data EXCEPT !.n_order = NoneInt]) @@ ops

\* remove_operator(op_id): self.operators afterwards
RemoveOperator(ops, op_id) == [k \in (DOMAIN ops) \ {op_id} |-> ops[k]]

\* the identity of the OperatorInfo object the current iteration constructs
FreshUid == Max(IdPool) + attempts + 1

\* the operator_data dictionary of a candidate
OperatorData(ops, n_ary, choice, compute, count) ==
    [Record(FreshUid, GetNextOperatorId(ops), n_ary, choice, compute, count)
        EXCEPT !.is_temporary = TRUE]

\* generate_operator_data_by_definition(choice): a unary or a binary operator
\* with a definition text and no procedure yet; the registry is not touched
GenerateOperatorDataByDefinition(ops, choice) ==
    {[result |-> "data", ops |-> ops, callee |-> 0, pattern |-> <<>>,
      data |-> OperatorData(ops, n_ary, choice, NoSrc, NoSrc)] : n_ary \in {1, 2}}

\* generate_recursive_operator_data_by_loop(): a binary operator looping over
\* the callee, None when the routing was granted on the callee before,
\* ValueError when no operator has recursion enabled
GenerateDataByLoop(ops) ==
    IF RecursiveOperators(ops) = {}
    THEN {[result |-> "ValueError", ops |-> ops, callee |-> 0, pattern |-> <<>>,
           data |-> OperatorData(ops, 2, "recursive_definition", NoSrc, NoSrc)]}
    ELSE UNION {
           {LET r == CheckAndSetRecursionValidity(ops[c], "binary", po)
                id == GetNextOperatorId(ops)
            IN [result |-> IF r.ret = "True" THEN "data" ELSE "None",
                ops |-> [ops EXCEPT ![c] = r.o],
                callee |-> c,
                pattern |-> Pattern("binary", ops[c].n_ary, po),
                data |-> OperatorData(ops, 2, "recursive_definition",
                                      Src(id, {ops[c].id}), Src(id, {ops[c].id}))]
              : po \in IF ops[c].n_ary = 2 THEN LoopParamOrders ELSE {NoParamOrder}}
           : c \in RecursiveOperators(ops)}

\* create_operator_info(choice)
CreateOperatorInfo(ops, choice) ==
    IF choice = "recursive_definition"
    THEN GenerateDataByLoop(ops)
    ELSE GenerateOperatorDataByDefinition(ops, choice)

\* parser.parse_definition(definition): raises, or returns None or a tree
ParseResults == {"raises", "None", "tree"}

\* transformer.generate_function(id, n_ary, def_tree): raises, or returns two
\* procedure texts, which may or may not be Python that ast.parse accepts
TransformResults == {"raises", "unparsable", "procedures"}

\* the operators a generated definition can call
CallSets(ops) == {S \in SUBSET (DOMAIN ops) : Cardinality(S) <= MaxCalls}

\* the procedure texts of a candidate when the compile step is reached: the
\* ones of the loop template, or the ones the transformer returns
ProcedureOf(cr, calls) ==
    IF cr.data.definition_type = "recursive_definition"
    THEN cr.data.op_compute_func
    ELSE Src(cr.data.id, calls)

\* what the candidate's procedures can do when run: a call of a name that is
\* not in available_funcs raises NameError, and the cost procedure of a loop
\* over a unary callee reads the undefined name result
RunBehaviours(cr, calls) ==
    IF cr.data.definition_type = "recursive_definition"
    THEN IF cr.ops[cr.callee].n_ary = 1 \/ cr.callee \notin available_funcs
         THEN {"raises"} ELSE Behaviours
    ELSE IF calls \subseteq available_funcs THEN Behaviours ELSE {"raises"}

\* the store the batch starts from: a binary operator and a unary recursive
\* operator over it
BatchStore ==
    OrderAll((1 :> Record(1, 1, 2, "simple_definition", Src(1, {}), Src(1, {})))
             @@ (2 :> Record(2, 2, 1, "recursive_definition", Src(2, {1}), Src(2, {1}))),
             <<1, 2>>, 1)

\* generate_operator_type(globals_dict, operator_type, num) is entered
InitBatch ==
    /\ operators = BatchStore
    /\ pre = operators
    /\ last = NoOp
    /\ exercised = [u \in Uids(operators) |-> {}]
    /\ LoadedIndexes
    /\ operator_type \in DefinitionTypes
    /\ num \in 0..MaxNum
    /\ generated_count = 0
    /\ attempts = 0
    /\ temp_file = <<>>
    /\ pc = IF num = 0 THEN "done" ELSE "loop"
    /\ final_file = <<>>
    /\ NoExpr

\* while generated_count < num
Iterating == pc = "loop" /\ generated_count < num /\ attempts < MaxAttempts

\* the bookkeeping of a granted routing, and the entry of a record that stays
Granted(cr) ==
    IF cr.callee # 0 /\ cr.result = "data"
    THEN [exercised EXCEPT ![operators[cr.callee].uid] = @ \cup {cr.pattern}]
    ELSE exercised

Outcome(name, cr, accepted, behaviour) ==
    [op |-> "iterate", arg |-> cr.data.id, ok |-> accepted, outcome |-> name,
     uid |-> cr.data.uid, behaviour |-> behaviour, created |-> cr.result]

\* one iteration: create_operator_info returns None (add_operator(None) raises
\* TypeError) or raises ValueError
IterCreateRaises(cr) ==
    /\ Iterating
    /\ cr.result # "data"
    /\ pc' = "crashed"
    /\ attempts' = attempts + 1
    /\ last' = Outcome("create_raised", cr, FALSE, "none")
    /\ pre' = operators
    /\ UNCHANGED exprVars
    /\ UNCHANGED <<operators, exercised, indexVars, operator_type, num,
                   generated_count, temp_file, final_file>>

\* the candidate is added and removed again: the indexes afterwards
Discard(cr) ==
    /\ operators' = RemoveOperator(AddOperator(cr.ops, cr.data), cr.data.id)
    /\ symbol_to_operators' = (symbol_to_operators \cup {cr.data.uid}) \ {cr.data.uid}
    /\ available_funcs' = available_funcs \ {cr.data.id}
    /\ exercised' = Granted(cr)
    /\ attempts' = attempts + 1
    /\ pre' = operators
    /\ UNCHANGED exprVars
    /\ UNCHANGED <<base_operators, operator_type, num, generated_count, temp_file, pc,
                   final_file>>

\* one iteration: parse_definition raises; remove_operator, continue
IterParseFails(cr, parsed) ==
    /\ Iterating
    /\ parsed = "raises"
    /\ cr.result = "data"
    /\ operator_type # "recursive_definition"
    /\ Discard(cr)
    /\ last' = Outcome("parse_failed", cr, FALSE, "none")

\* one iteration: parse_definition returns None, no procedure is generated and
\* ast.parse(None) raises TypeError out of check_syntax
IterParseReturnsNone(cr, parsed) ==
    /\ Iterating
    /\ parsed = "None"
    /\ cr.result = "data"
    /\ operator_type # "recursive_definition"
    /\ operators' = AddOperator(cr.ops, [cr.data EXCEPT !.is_temporary = FALSE])
    /\ symbol_to_operators' = symbol_to_operators \cup {cr.data.uid}
    /\ exercised' = (cr.data.uid :> {}) @@ exercised
    /\ pc' = "crashed"
    /\ attempts' = attempts + 1
    /\ last' = Outcome("syntax_check_raised", cr, FALSE, "none")
    /\ pre' = operators
    /\ UNCHANGED exprVars
    /\ UNCHANGED <<available_funcs, base_operators, operator_type, num, generated_count,
                   temp_file, final_file>>

\* one iteration: generate_function raises; remove_operator, continue
IterTransformFails(cr, transformed) ==
    /\ Iterating
    /\ transformed = "raises"
    /\ cr.result = "data"
    /\ operator_type # "recursive_definition"
    /\ Discard(cr)
    /\ last' = Outcome("transform_failed", cr, FALSE, "none")

\* one iteration: the generated procedure texts do not parse; continue
IterSyntaxFails(cr, transformed) ==
    /\ Iterating
    /\ transformed = "unparsable"
    /\ cr.result = "data"
    /\ operator_type # "recursive_definition"
    /\ operators' = AddOperator(cr.ops,
                        [cr.data EXCEPT !.op_compute_func = Src(cr.data.id, {}),
                                        !.op_count_func = Src(cr.data.id, {}),
                                        !.is_temporary = TRUE])
    /\ symbol_to_operators' = symbol_to_operators \cup {cr.data.uid}
    /\ exercised' = (cr.data.uid :> {}) @@ exercised
    /\ attempts' = attempts + 1
    /\ last' = Outcome("syntax_failed", cr, FALSE, "none")
    /\ pre' = operators
    /\ UNCHANGED exprVars
    /\ UNCHANGED <<available_funcs, base_operators, operator_type, num, generated_count,
                   temp_file, pc, final_file>>

\* one iteration: the executability test returns False (the test harness
\* itself raised); remove_operator
IterExecFails(cr) ==
    /\ Iterating
    /\ cr.result = "data"
    /\ Discard(cr)
    /\ last' = Outcome("exec_failed", cr, FALSE, "none")

\* the registry when the acceptance branch has extracted the dependencies
Extracted(cr, calls) ==
    ExtractOpDependencies(
        AddOperator(cr.ops, [cr.data EXCEPT !.op_compute_func = ProcedureOf(cr, calls),
                                            !.op_count_func = ProcedureOf(cr, calls),
                                            !.is_temporary = FALSE]),
        cr.data.id)

\* one iteration: the executability test returns True; dependencies, order,
\* available_funcs, temp file, generated_count += 1
IterAccept(cr, calls, behaviour) ==
    /\ Iterating
    /\ cr.result = "data"
    /\ behaviour \in RunBehaviours(cr, calls)
    /\ OrderComputable(Extracted(cr, calls), cr.data.id)
    /\ operators' = CalculateOrder(Extracted(cr, calls), cr.data.id)
    /\ symbol_to_operators' = symbol_to_operators \cup {cr.data.uid}
    /\ available_funcs' = available_funcs \cup {cr.data.id}
    /\ exercised' = (cr.data.uid :> {}) @@ Granted(cr)
    /\ temp_file' = Append(temp_file, cr.data.uid)
    /\ generated_count' = generated_count + 1
    /\ attempts' = attempts + 1
    /\ pc' = IF generated_count + 1 < num THEN "loop" ELSE "done"
    /\ last' = Outcome("accepted", cr, TRUE, behaviour)
    /\ pre' = operators
    /\ UNCHANGED exprVars
    /\ UNCHANGED <<base_operators, operator_type, num, final_file>>

\* one iteration: the executability test returns True and calculate_order
\* raises on max() over an order that is None
IterAcceptRaises(cr, calls) ==
    /\ Iterating
    /\ cr.result = "data"
    /\ ~OrderComputable(Extracted(cr, calls), cr.data.id)
    /\ operators' = Extracted(cr, calls)
    /\ symbol_to_operators' = symbol_to_operators \cup {cr.data.uid}
    /\ exercised' = (cr.data.uid :> {}) @@ Granted(cr)
    /\ attempts' = attempts + 1
    /\ pc' = "crashed"
    /\ last' = Outcome("order_raised", cr, FALSE, "none")
    /\ pre' = operators
    /\ UNCHANGED exprVars
    /\ UNCHANGED <<available_funcs, base_operators, operator_type, num, generated_count,
                   temp_file, final_file>>

\* the operator types generate_randop asks generate_operator_type for
RandopTypes == {"simple_definition", "branch_definition"}

\* the identity of the OperatorInfo object generate_base_operators constructs
\* for base n
BaseUid(n) == Max(IdPool) + MaxAttempts + n - 1

\* generate_base_operators: its operator_data for base n
BaseOperatorData(ops, n) ==
    [Record(BaseUid(n), GetNextOperatorId(ops), 1, "None", NoSrc, NoSrc)
        EXCEPT !.is_base = Some(n)]

\* generate_base_operators, from base n on: self.operators afterwards
RECURSIVE GenerateBaseOperators(_, _)
GenerateBaseOperators(ops, n) ==
    IF n > MaxBase THEN ops
    ELSE GenerateBaseOperators(AddOperator(ops, BaseOperatorData(ops, n)), n + 1)

\* save_operators_to_jsonl: one line per record of self.operators
SaveOperatorsToJsonl(ops) ==
    [i \in 1..Cardinality(DOMAIN ops) |-> ops[SortedKeys(DOMAIN ops)[i]].uid]

\* the end of generate_randop: the base operators are added and the whole
\* registry is written to the generated-operators file
GenerateRandopTail ==
    /\ pc = "done"
    /\ operator_type \in RandopTypes
    /\ LET ops == GenerateBaseOperators(operators, 2)
       IN /\ operators' = ops
          /\ symbol_to_operators' = symbol_to_operators \cup {BaseUid(n) : n \in 2..MaxBase}
          /\ base_operators' = base_operators \cup {<<n, BaseUid(n)>> : n \in 2..MaxBase}
          /\ exercised' = [u \in Uids(ops) |->
                              IF u \in DOMAIN exercised THEN exercised[u] ELSE {}]
          /\ final_file' = SaveOperatorsToJsonl(ops)
    /\ pc' = "saved"
    /\ last' = [op |-> "save", arg |-> 0, ok |-> TRUE]
    /\ pre' = operators
    /\ UNCHANGED exprVars
    /\ UNCHANGED <<available_funcs, operator_type, num, generated_count, attempts, temp_file>>

NextBatch ==
    \/ \E cr \in CreateOperatorInfo(operators, operator_type) : IterCreateRaises(cr)
    \/ \E cr \in CreateOperatorInfo(operators, operator_type), parsed \in ParseResults :
          IterParseFails(cr, parsed)
    \/ \E cr \in CreateOperatorInfo(operators, operator_type), parsed \in ParseResults :
          IterParseReturnsNone(cr, parsed)
    \/ \E cr \in CreateOperatorInfo(operators, operator_type), transformed \in TransformResults :
          IterTransformFails(cr, transformed)
    \/ \E cr \in CreateOperatorInfo(operators, operator_type), transformed \in TransformResults :
          IterSyntaxFails(cr, transformed)
    \/ \E cr \in CreateOperatorInfo(operators, operator_type) : IterExecFails(cr)
    \/ \E cr \in CreateOperatorInfo(operators, operator_type) :
          \E calls \in CallSets(operators), behaviour \in Behaviours :
             IterAccept(cr, calls, behaviour)
    \/ \E cr \in CreateOperatorInfo(operators, operator_type) :
          \E calls \in CallSets(operators) : IterAcceptRaises(cr, calls)
    \/ GenerateRandopTail

SpecBatch == InitBatch /\ [][NextBatch]_vars

\* ------------------------------------------------------- expression trees
\* number of operator applications in an expression tree handed to the evaluator
MaxApps == 2
\* the values of the number leaves and the names of the variable leaves
LeafValues == {0, 7}
VariableNames == {"x"}

\* A node is <<type, position, ...>>; position is "None" until a parent node
\* takes the node as its child.
NumberNode(value) == <<"number", "None", value>>
VariableNode(v) == <<"variable", "None", v>>
Placed(node, position) == [node EXCEPT ![2] = position]
UnaryExpressionNode(operator, unary_expr) ==
    <<"unary", "None", operator, Placed(unary_expr, "unary")>>
BinaryExpressionNode(operator, left_expr, right_expr) ==
    <<"binary", "None", operator, Placed(left_expr, "left"), Placed(right_expr, "right")>>

NumberLeaves == {NumberNode(value) : value \in LeafValues}
VariableLeaves == {VariableNode(v) : v \in VariableNames}

\* the trees with exactly n operator applications
RECURSIVE TreesOf(_, _, _, _)
TreesOf(n, binary, unary, leaves) ==
    IF n = 0 THEN leaves
    ELSE {UnaryExpressionNode(o, c) : o \in unary, c \in TreesOf(n - 1, binary, unary, leaves)}
         \cup UNION {{BinaryExpressionNode(o, l, r) :
                        o \in binary,
                        l \in TreesOf(i, binary, unary, leaves),
                        r \in TreesOf(n - 1 - i, binary, unary, leaves)} : i \in 0..(n - 1)}

Trees(max, binary, unary, leaves) ==
    UNION {TreesOf(n, binary, unary, leaves) : n \in 0..max}

\* the nodes of a tree, the tree itself included
RECURSIVE Nodes(_)
Nodes(node) ==
    CASE node[1] = "unary" -> {node} \cup Nodes(node[4])
      [] node[1] = "binary" -> {node} \cup Nodes(node[4]) \cup Nodes(node[5])
      [] OTHER -> {node}

\* -------------------------------------------- operator procedures and fold
\* the 'NaN' string of the procedures; an integer n is Some(n)
NaN == <<"NaN", "NaN">>
Abs(n) == IF n < 0 THEN 0 - n ELSE n
\* Python's a // b for b # 0
FloorDiv(a, b) ==
    IF (a >= 0) = (b > 0) THEN Abs(a) \div Abs(b)
    ELSE 0 - ((Abs(a) + Abs(b) - 1) \div Abs(b))

op_1(a, b) == IF a = NaN \/ b = NaN THEN NaN ELSE Some(Val(a) + Val(b))
op_count_1(a, b) == IF a = NaN \/ b = NaN THEN NaN ELSE Some(1)
op_3(a) == IF a = NaN THEN NaN ELSE Some(0 - Val(a))
op_count_3(a) == IF a = NaN THEN NaN ELSE Some(1)
op_5(a, b) ==
    IF a = NaN \/ b = NaN THEN NaN
    ELSE IF Val(b) = 0 THEN NaN
    ELSE Some(FloorDiv(Val(a), Val(b)))
op_count_5(a, b) ==
    IF a = NaN \/ b = NaN THEN NaN
    ELSE IF Val(b) = 0 THEN NaN
    ELSE Some(Abs(Val(a)) \div Abs(Val(b)))
\* a stored unary operator that has no value at 0: both procedures return 'NaN' there
op_7(a) == IF a = NaN THEN NaN ELSE IF Val(a) = 0 THEN NaN ELSE a
op_count_7(a) == IF a = NaN THEN NaN ELSE IF Val(a) = 0 THEN NaN ELSE Some(1)
\* a stored unary operator whose value procedure alone returns 'NaN' at 0
op_8(a) == IF a = NaN THEN NaN ELSE IF Val(a) = 0 THEN NaN ELSE a
op_count_8(a) == IF a = NaN THEN NaN ELSE Some(1)

FoldBinary == {"+", "/"}
FoldUnary == {"-", "~", "!"}

get_compute_function(operator, args) ==
    CASE operator = "+" -> op_1(args[1], args[2])
      [] operator = "/" -> op_5(args[1], args[2])
      [] operator = "-" -> op_3(args[1])
      [] operator = "~" -> op_7(args[1])
      [] operator = "!" -> op_8(args[1])

get_count_function(operator, args) ==
    CASE operator = "+" -> op_count_1(args[1], args[2])
      [] operator = "/" -> op_count_5(args[1], args[2])
      [] operator = "-" -> op_count_3(args[1])
      [] operator = "~" -> op_count_7(args[1])
      [] operator = "!" -> op_count_8(args[1])

\* what a call of the fold gives: the pair it returns, or the exception it
\* raises.  seen records what happened on the way: whether a procedure was
\* handed 'NaN', and whether a procedure that was applied returned 'NaN'.
NothingSeen == [nan_operand |-> FALSE, nan_returned |-> FALSE]
Both(s, t) ==
    [nan_operand |-> s.nan_operand \/ t.nan_operand,
     nan_returned |-> s.nan_returned \/ t.nan_returned]
Applied(args, cur_degree, cur_result) ==
    [nan_operand |-> \E i \in DOMAIN args : args[i] = NaN,
     nan_returned |-> cur_degree = NaN \/ cur_result = NaN]
Returned(degree, result, seen) ==
    [raised |-> "none", degree |-> degree, result |-> result, seen |-> seen]
Raised(name, seen) ==
    [raised |-> name, degree |-> NaN, result |-> NaN, seen |-> seen]

OwnDegreeOnly(cur_degree, cur_result, sub_degree, seen) ==
    IF cur_degree = NaN THEN Raised("TypeError", seen)
    ELSE Returned(cur_degree, cur_result, seen)
\* the unary branch adds cur_degree to sub_degree without looking at either
\* new value: 'NaN' + int raises TypeError
UnaryReturn(cur_degree, cur_result, sub_degree, seen) ==
    IF cur_degree = NaN THEN Raised("TypeError", seen)
    ELSE Returned(Some(Val(cur_degree) + Val(sub_degree)), cur_result, seen)

RECURSIVE calculate_normalized_expansion_degree_node(_)
calculate_normalized_expansion_degree_node(node) ==
    CASE node[1] = "number" -> Returned(Some(0), Some(node[3]), NothingSeen)
      [] node[1] = "unary" ->
            LET sub == calculate_normalized_expansion_degree_node(node[4]) IN
            IF sub.raised # "none" THEN sub
            ELSE IF sub.degree = NaN \/ sub.result = NaN
            THEN Returned(NaN, NaN, sub.seen)
            ELSE
            LET cur_result == get_compute_function(node[3], <<sub.result>>)
                cur_degree == get_count_function(node[3], <<sub.result>>)
            IN  UnaryReturn(cur_degree, cur_result, sub.degree,
                            Both(sub.seen, Applied(<<sub.result>>, cur_degree, cur_result)))
      [] node[1] = "binary" ->
            LET left == calculate_normalized_expansion_degree_node(node[4]) IN
            IF left.raised # "none" THEN left
            ELSE IF left.degree = NaN \/ left.result = NaN
            THEN Returned(NaN, NaN, left.seen)
            ELSE
            LET right == calculate_normalized_expansion_degree_node(node[5]) IN
            IF right.raised # "none" THEN Raised(right.raised, Both(left.seen, right.seen))
            ELSE IF right.degree = NaN \/ right.result = NaN
            THEN Returned(NaN, NaN, Both(left.seen, right.seen))
            ELSE
            LET args == <<left.result, right.result>>
                cur_result == get_compute_function(node[3], args)
                cur_degree == get_count_function(node[3], args)
                seen == Both(Both(left.seen, right.seen), Applied(args, cur_degree, cur_result))
            IN  IF cur_degree = NaN \/ cur_result = NaN THEN Returned(NaN, NaN, seen)
                ELSE Returned(Some(Val(cur_degree) + Val(left.degree) + Val(right.degree)),
                              cur_result, seen)
      [] node[1] = "variable" -> Returned(NaN, NaN, NothingSeen)

\* a process that holds no registry
NoRegistry ==
    /\ operators = <<>>
    /\ pre = operators
    /\ last = NoOp
    /\ exercised = <<>>
    /\ LoadedIndexes
    /\ NoBatch

InitFold ==
    /\ NoRegistry
    /\ tree \in Trees(MaxApps, FoldBinary, FoldUnary, NumberLeaves \cup VariableLeaves)
    /\ priority = <<>>
    /\ associativity_direction = <<>>
    /\ with_all_brackets = FALSE
    /\ expr_result = <<"None">>
    /\ binary_ops = {}
    /\ unary_prefix_ops = {}
    /\ unary_postfix_ops = {}
    /\ frames = 0

\* calculate_normalized_expansion_degree_node(tree)
Fold ==
    /\ last.op # "fold"
    /\ expr_result' = calculate_normalized_expansion_degree_node(tree)
    /\ last' = [op |-> "fold", arg |-> 0, ok |-> expr_result'.raised = "none"]
    /\ UNCHANGED <<operators, pre, exercised, indexVars, batchVars, tree, priority,
                   associativity_direction, with_all_brackets, binary_ops,
                   unary_prefix_ops, unary_postfix_ops, frames>>

NextFold == Fold

SpecFold == InitFold /\ [][NextFold]_vars

\* ------------------------------------------------------------ tree_to_str
\* the largest priority an expression operator is assigned
MaxPriority == 2
RenderBinary == {"+", "*"}
RenderUnary == {"-"}
Directions == {"left", "right"}

\* A rendering is the sequence of the pieces the f-strings join.
Bracketed(str) == <<"(">> \o str \o <<")">>

\* NumberNode.to_str_no_base_symbol
ToStrNoBaseSymbol(node, op_mode) ==
    IF op_mode THEN <<ToString(node[3])>> ELSE <<"$", ToString(node[3]), "$">>

\* the tests tree_to_str makes, below the with_all_brackets test, to bracket a
\* binary node under parent_op
EqualPriorityBracketsOnRightOnly(node, parent_op) ==
    IF parent_op # "None" /\ priority[node[3]] < priority[parent_op] THEN TRUE
    ELSE IF parent_op # "None" /\ priority[node[3]] = priority[parent_op]
    THEN node[2] = "right"
    ELSE FALSE
NeedsBrackets(node, parent_op) ==
    IF parent_op # "None" /\ priority[node[3]] < priority[parent_op] THEN TRUE
    ELSE IF parent_op # "None" /\ priority[node[3]] = priority[parent_op]
    THEN IF associativity_direction[parent_op] = "left" /\ node[2] = "right" THEN TRUE
         ELSE IF associativity_direction[parent_op] = "right" /\ node[2] = "left" THEN TRUE
         ELSE FALSE
    ELSE FALSE

RECURSIVE tree_to_str(_, _, _, _)
tree_to_str(node, parent_op, all_brackets, op_mode) ==
    CASE node[1] = "number" -> ToStrNoBaseSymbol(node, op_mode)
      [] node[1] = "variable" -> <<node[3]>>
      [] node[1] = "binary" ->
            LET left_str == tree_to_str(node[4], node[3], all_brackets, op_mode)
                right_str == tree_to_str(node[5], node[3], all_brackets, op_mode)
                str == left_str \o <<node[3]>> \o right_str
            IN  IF all_brackets THEN Bracketed(str)
                ELSE IF NeedsBrackets(node, parent_op) THEN Bracketed(str)
                ELSE str
      [] node[1] = "unary" ->
            Bracketed(<<node[3]>> \o tree_to_str(node[4], node[3], all_brackets, op_mode))

\* the statistics tree_to_str gathers on its way
RECURSIVE OperationCount(_)
OperationCount(node) ==
    CASE node[1] = "binary" -> 1 + OperationCount(node[4]) + OperationCount(node[5])
      [] node[1] = "unary" -> 1 + OperationCount(node[4])
      [] OTHER -> 0
AllPriority(node) ==
    {priority[n[3]] : n \in {m \in Nodes(node) : m[1] \in {"binary", "unary"}}}

InitRender ==
    /\ NoRegistry
    /\ tree \in Trees(MaxApps, RenderBinary, RenderUnary, NumberLeaves)
    /\ priority \in [RenderBinary \cup RenderUnary -> 1..MaxPriority]
    /\ \E d \in [RenderBinary -> Directions] :
          associativity_direction = [o \in RenderBinary \cup RenderUnary |->
                                        IF o \in RenderBinary THEN d[o] ELSE "None"]
    /\ with_all_brackets = FALSE
    /\ expr_result = <<"None">>
    /\ binary_ops = {}
    /\ unary_prefix_ops = {}
    /\ unary_postfix_ops = {}
    /\ frames = 0

\* set_with_all_brackets(b), before the tree is rendered
SetWithAllBrackets(b) ==
    /\ last.op = "none"
    /\ with_all_brackets' = b
    /\ last' = [op |-> "set_with_all_brackets", arg |-> 0, ok |-> TRUE]
    /\ UNCHANGED <<operators, pre, exercised, indexVars, batchVars, tree, priority,
                   associativity_direction, expr_result, binary_ops,
                   unary_prefix_ops, unary_postfix_ops, frames>>

\* tree_to_str(tree, None, with_base_symbol=False, op_mode)
TreeToStr(op_mode) ==
    /\ expr_result' = [str |-> tree_to_str(tree, "None", with_all_brackets, op_mode),
                       op_mode |-> op_mode,
                       operation_count |-> OperationCount(tree),
                       all_priority |-> AllPriority(tree)]
    /\ last' = [op |-> "tree_to_str", arg |-> 0, ok |-> TRUE]
    /\ UNCHANGED <<operators, pre, exercised, indexVars, batchVars, tree, priority,
                   associativity_direction, with_all_brackets, binary_ops,
                   unary_prefix_ops, unary_postfix_ops, frames>>

NextRender ==
    \/ \E b \in BOOLEAN : SetWithAllBrackets(b)
    \/ \E op_mode \in BOOLEAN : TreeToStr(op_mode)

SpecRender == InitRender /\ [][NextRender]_vars

\* ---------------------------------------------------- generate_expression
\* the largest max_depth generate_expression is called with
MaxDepth == 2
GenBinary == {"+"}
GenUnaryPrefix == {"-"}
GenUnaryPostfix == {"!"}
AtomChoices == {"variable", "number", "variable_and_number"}
\* the categories expr_type_weights gives a positive weight
ExprTypes == {"binary", "unary_prefix", "unary_postfix", "atoms"}

\* what a call gives: a node, None, or the exception it raises
NoneNode == <<"None">>
AttributeError == <<"AttributeError">>
IsNode(r) == r[1] \in {"number", "variable", "unary", "binary"}

generate_atoms(atom_choice) ==
    CASE atom_choice = "variable" -> VariableLeaves
      [] atom_choice = "number" -> NumberLeaves
      [] atom_choice = "variable_and_number" -> VariableLeaves \cup NumberLeaves

\* the categories a draw can settle on: a draw of a category whose pool is
\* empty is made again
Drawable ==
    {t \in ExprTypes :
        CASE t = "binary" -> binary_ops # {}
          [] t = "unary_prefix" -> unary_prefix_ops # {}
          [] t = "unary_postfix" -> unary_postfix_ops # {}
          [] OTHER -> TRUE}

\* a child that is None raises AttributeError when its position is set, and
\* an exception raised below goes up
ChildFailures(sub) == IF \E r \in sub : ~IsNode(r) THEN {AttributeError} ELSE {}

\* the unary_postfix branch builds its node and ends without a return statement
PostfixBranch(children) == IF children = {} THEN {} ELSE {NoneNode}

\* the test that ends the recursion
AtomsOnlyBeyondMaxDepth(cur_depth, max_depth) == cur_depth > max_depth
AtMaxDepth(cur_depth, max_depth) == cur_depth >= max_depth

RECURSIVE generate_expression(_, _, _)
RECURSIVE DrawnAs(_, _, _, _)
\* what generate_expression gives once the draw has settled on expr_type
DrawnAs(expr_type, cur_depth, max_depth, atom_choice) ==
    IF expr_type = "atoms" THEN generate_atoms(atom_choice)
    ELSE
    LET sub == generate_expression(cur_depth + 1, max_depth, atom_choice)
        children == {r \in sub : IsNode(r)}
    IN  CASE expr_type = "binary" ->
                {BinaryExpressionNode(o, l, r) : o \in binary_ops, l \in children, r \in children}
                    \cup ChildFailures(sub)
          [] expr_type = "unary_prefix" ->
                {UnaryExpressionNode(o, c) : o \in unary_prefix_ops, c \in children}
                    \cup ChildFailures(sub)
          [] expr_type = "unary_postfix" ->
                PostfixBranch(children) \cup ChildFailures(sub)

generate_expression(cur_depth, max_depth, atom_choice) ==
    IF AtMaxDepth(cur_depth, max_depth) THEN generate_atoms(atom_choice)
    ELSE UNION {DrawnAs(t, cur_depth, max_depth, atom_choice) : t \in Drawable}

InitGen ==
    /\ NoRegistry
    /\ tree = NoneNode
    /\ priority = <<>>
    /\ associativity_direction = <<>>
    /\ with_all_brackets = FALSE
    /\ expr_result = <<"None">>
    /\ binary_ops \in SUBSET GenBinary
    /\ unary_prefix_ops \in SUBSET GenUnaryPrefix
    /\ unary_postfix_ops \in SUBSET GenUnaryPostfix
    /\ frames = 0

Generated(cur_depth, max_depth, atom_choice, expr_type, result) ==
    /\ tree' = result
    /\ expr_result' = result
    /\ last' = [op |-> "generate_expression", arg |-> max_depth, ok |-> IsNode(result),
                cur_depth |-> cur_depth, atom_choice |-> atom_choice,
                expr_type |-> expr_type]
    /\ UNCHANGED <<operators, pre, exercised, indexVars, batchVars, priority,
                   associativity_direction, with_all_brackets, binary_ops,
                   unary_prefix_ops, unary_postfix_ops, frames>>

\* generate_expression(cur_depth, max_depth, atom_choice) at or beyond max_depth
GenerateExpressionAtMaxDepth(cur_depth, max_depth, atom_choice) ==
    /\ last.op = "none"
    /\ AtMaxDepth(cur_depth, max_depth)
    /\ \E result \in generate_atoms(atom_choice) :
          Generated(cur_depth, max_depth, atom_choice, "none", result)

\* generate_expression(cur_depth, max_depth, atom_choice) below max_depth, the
\* draw settling on expr_type
GenerateExpression(cur_depth, max_depth, atom_choice, expr_type) ==
    /\ last.op = "none"
    /\ ~AtMaxDepth(cur_depth, max_depth)
    /\ expr_type \in Drawable
    /\ \E result \in DrawnAs(expr_type, cur_depth, max_depth, atom_choice) :
          Generated(cur_depth, max_depth, atom_choice, expr_type, result)

NextGen ==
    \/ \E cur_depth \in 0..MaxDepth, max_depth \in 0..MaxDepth, atom_choice \in AtomChoices :
          GenerateExpressionAtMaxDepth(cur_depth, max_depth, atom_choice)
    \/ \E cur_depth \in 0..MaxDepth, max_depth \in 0..MaxDepth, atom_choice \in AtomChoices,
          expr_type \in ExprTypes :
          GenerateExpression(cur_depth, max_depth, atom_choice, expr_type)

SpecGen == InitGen /\ [][NextGen]_vars

\* ----------------------------------------------------------- add_operator
\* number of add_operator calls that store a record
MaxAdds == 2

\* the id add_operator assigns when the data carries none
AssignedIdByCount(ops) == Cardinality(DOMAIN ops) + 1
AssignedId(ops) == Max(DOMAIN ops \cup {0}) + 1

\* the test add_operator makes on an id the data carries
NeverExists(ops, new_id) == FALSE
AlreadyExists(ops, new_id) == new_id \in DOMAIN ops

\* the operator_data dictionaries of the calls: with no "id" key, with id None
\* or an id; a base operator, or an operator that carries an order
GivenIds == {NoneInt} \cup {Some(k) : k \in IdPool}
GivenShapes ==
    {[is_base |-> NoneInt, n_order |-> NoneInt],
     [is_base |-> NoneInt, n_order |-> Some(5)],
     [is_base |-> Some(2), n_order |-> NoneInt]}

\* the identity of the OperatorInfo object add_operator constructs
NewUid(ops) == Max(Uids(ops) \cup IdPool) + 1

GivenData(ops, has_id, id, shape) ==
    [has_id |-> has_id, id |-> id,
     record |-> [Record(NewUid(ops), 0, IF IsNone(shape.is_base) THEN 2 ELSE 1,
                        "simple_definition", NoSrc, NoSrc)
                    EXCEPT !.is_base = shape.is_base, !.n_order = shape.n_order]]

\* add_operator(operator_data): the exception it raises, or the registry
\* afterwards and the record it returns
add_operator(ops, operator_data) ==
    LET auto == ~operator_data.has_id \/ IsNone(operator_data.id)
        new_id == IF auto THEN AssignedId(ops) ELSE Val(operator_data.id)
        data == [operator_data.record EXCEPT !.id = new_id]
    IN  IF ~auto /\ AlreadyExists(ops, new_id)
        THEN [raised |-> "ValueError", ops |-> ops, new_operator |-> <<>>]
        ELSE [raised |-> "none", ops |-> AddOperator(ops, data),
              new_operator |-> AddOperator(ops, data)[new_id]]

InitAdd ==
    /\ \E K \in KeySets : operators = LoadedStore(K, [k \in K |-> {}])
    /\ pre = operators
    /\ last = NoOp
    /\ exercised = [u \in Uids(operators) |-> {}]
    /\ LoadedIndexes
    /\ NoBatch
    /\ NoExpr

Added == {k \in DOMAIN operators : operators[k].uid > Max(IdPool)}

\* add_operator(operator_data)
AddOperatorCall(has_id, id, shape) ==
    /\ Cardinality(Added) < MaxAdds
    /\ has_id \/ IsNone(id)
    /\ LET r == add_operator(operators, GivenData(operators, has_id, id, shape)) IN
        /\ operators' = r.ops
        /\ last' = [op |-> "add_operator", arg |-> id, ok |-> r.raised = "none",
                    has_id |-> has_id, raised |-> r.raised, returned |-> r.new_operator,
                    n_order |-> shape.n_order]
        /\ IF r.raised = "none"
           THEN /\ symbol_to_operators' = symbol_to_operators \cup {r.new_operator.uid}
                /\ base_operators' =
                      IF IsNone(r.new_operator.is_base) THEN base_operators
                      ELSE base_operators \cup
                              {<<Val(r.new_operator.is_base), r.new_operator.uid>>}
                /\ exercised' = (r.new_operator.uid :> {}) @@ exercised
           ELSE UNCHANGED <<symbol_to_operators, base_operators, exercised>>
    /\ pre' = operators
    /\ UNCHANGED exprVars
    /\ UNCHANGED <<available_funcs, batchVars>>

NextAdd ==
    \E has_id \in BOOLEAN, id \in GivenIds, shape \in GivenShapes :
        AddOperatorCall(has_id, id, shape)

SpecAdd == InitAdd /\ [][NextAdd]_vars

\* ------------------------------------------------- the registry's own calls
\* the ids of a loaded registry, and the ids its calls are handed
RegIds == {1, 2, 3}
\* number of OperatorInfo objects the calls construct
MaxObjects == 2

\* the ids add_operator is handed: none, or one a loaded registry may hold
RegGivenIds == {NoneInt, Some(2)}
RegKeySets == {{}, {1, 3}, {1, 2, 3}}

\* a loaded registry whose every record calls the records below it
RegStore(K) == LoadedStore(K, [k \in K |-> {j \in K : j < k}])

\* the operator_data the calls carry: binary, unary prefix, unary postfix, and
\* the prefix operator of numeral base 2
RegShapes ==
    {[n_ary |-> 2, unary_position |-> "None", is_base |-> NoneInt],
     [n_ary |-> 1, unary_position |-> "prefix", is_base |-> NoneInt],
     [n_ary |-> 1, unary_position |-> "postfix", is_base |-> NoneInt],
     [n_ary |-> 1, unary_position |-> "prefix", is_base |-> Some(2)]}

\* the identity of the next OperatorInfo object: one that neither the id index
\* nor the base index holds
FreshIn(ops, base) == Max(Uids(ops) \cup {p[2] : p \in base} \cup IdPool) + 1
FreshObject == FreshIn(operators, base_operators)
MayConstruct(n) == FreshObject + n - 1 <= Max(IdPool) + MaxObjects

RegData(id, shape) ==
    [has_id |-> TRUE, id |-> id,
     record |-> [Record(FreshObject, 0, shape.n_ary,
                        IF IsNone(shape.is_base) THEN "simple_definition" ELSE "None",
                        NoSrc, NoSrc)
                    EXCEPT !.is_base = shape.is_base,
                           !.unary_position = shape.unary_position]]

InitReg ==
    /\ \E K \in RegKeySets : operators = RegStore(K)
    /\ pre = operators
    /\ last = NoOp
    /\ exercised = [u \in Uids(operators) |-> {}]
    /\ LoadedIndexes
    /\ NoBatch
    /\ NoExpr

\* The calls that follow one another are those that change the registry: a
\* call that raises, or that only reads or recomputes, is the last of its run.
Live ==
    \/ last.op = "none"
    \/ last.ok /\ last.op \in {"add_operator", "remove_operator", "delete_one_operator",
                              "generate_base_operators"}

\* add_operator(operator_data)
RegAddOperator(id, shape) ==
    /\ Live
    /\ MayConstruct(1)
    /\ LET r == add_operator(operators, RegData(id, shape)) IN
        /\ operators' = r.ops
        /\ last' = [op |-> "add_operator", arg |-> id, ok |-> r.raised = "none",
                    raised |-> r.raised, returned |-> r.new_operator]
        /\ IF r.raised = "none"
           THEN /\ symbol_to_operators' = symbol_to_operators \cup {r.new_operator.uid}
                /\ base_operators' =
                      IF IsNone(r.new_operator.is_base) THEN base_operators
                      ELSE base_operators \cup
                              {<<Val(r.new_operator.is_base), r.new_operator.uid>>}
                /\ exercised' = (r.new_operator.uid :> {}) @@ exercised
           ELSE UNCHANGED <<symbol_to_operators, base_operators, exercised>>
    /\ pre' = operators
    /\ UNCHANGED exprVars
    /\ UNCHANGED <<available_funcs, batchVars>>

\* remove_operator(op_id): the operator leaves self.operators, the callable
\* cache and its symbol's list; self.base_operators is not looked at
RegRemoveOperator(op_id) ==
    /\ Live
    /\ op_id \in DOMAIN operators
    /\ operators' = RemoveOperator(operators, op_id)
    /\ available_funcs' = available_funcs \ {op_id}
    /\ symbol_to_operators' = symbol_to_operators \ {operators[op_id].uid}
    /\ exercised' = [u \in (DOMAIN exercised) \ {operators[op_id].uid} |-> exercised[u]]
    /\ last' = [op |-> "remove_operator", arg |-> op_id, ok |-> TRUE, raised |-> "none",
                returned |-> operators[op_id]]
    /\ pre' = operators
    /\ UNCHANGED exprVars
    /\ UNCHANGED <<base_operators, batchVars>>

\* if op_id not in self.operators: raise ValueError("Operator ID ... does not
\* exist."), the first statement of the call: the registry it leaves
RenumberedBeforeRaise(ops) ==
    [raised |-> "ValueError", ops |-> Renumber(ops, SortedKeys(DOMAIN ops), 1)]
RaiseNotFound(ops) == [raised |-> "ValueError", ops |-> ops]

\* a call with an id the registry does not hold
NotFound(name, op_id) ==
    /\ Live
    /\ op_id \notin DOMAIN operators
    /\ operators' = RaiseNotFound(operators).ops
    /\ last' = [op |-> name, arg |-> op_id, ok |-> FALSE,
                raised |-> RaiseNotFound(operators).raised, returned |-> <<>>]
    /\ pre' = operators
    /\ UNCHANGED exprVars
    /\ UNCHANGED <<exercised, indexVars, batchVars>>

\* remove_operator(op_id), op_id not in the registry
RegRemoveUnknown(op_id) == NotFound("remove_operator", op_id)

\* get_operator_by_id(op_id)
RegGetOperatorById(op_id) ==
    /\ Live
    /\ op_id \in DOMAIN operators
    /\ last' = [op |-> "get_operator_by_id", arg |-> op_id, ok |-> TRUE, raised |-> "none",
                returned |-> operators[op_id]]
    /\ pre' = operators
    /\ UNCHANGED exprVars
    /\ UNCHANGED <<operators, exercised, indexVars, batchVars>>

RegGetUnknown(op_id) == NotFound("get_operator_by_id", op_id)

\* delete_one_operator(op_id), op_id not in the registry: delete_one_operator_by_dep
\* raises before anything is removed or renumbered
RegDeleteUnknown(op_id) == NotFound("delete_one_operator", op_id)

\* extract_op_dependencies(op_id), op_id not in the registry: get_operator_by_id raises
RegExtractUnknown(op_id) == NotFound("extract_op_dependencies", op_id)

\* how often the compute text names each operator it calls
MaxRepeat == 2

\* re.findall(r"op_(\d+)", text): the header's id, then the id of every call
RECURSIVE Repeated(_, _)
Repeated(seq, n) == IF n = 0 THEN <<>> ELSE seq \o Repeated(seq, n - 1)
FindAll(src, repeat) == <<src.hdr>> \o Repeated(SortedKeys(src.calls), repeat)

Range(seq) == {seq[i] : i \in DOMAIN seq}

\* list(set(map(int, op_numbers)))
KeepAllMatches(op_numbers) == op_numbers
ListOfSet(op_numbers) == SortedKeys(Range(op_numbers))

\* if op_id in op_numbers: op_numbers.remove(op_id)
RemoveFirst(seq, x) ==
    IF x \notin Range(seq) THEN seq
    ELSE LET i == CHOOSE j \in DOMAIN seq : seq[j] = x /\ \A h \in 1..(j - 1) : seq[h] # x
         IN SubSeq(seq, 1, i - 1) \o SubSeq(seq, i + 1, Len(seq))

\* extract_op_dependencies(op_id): the list it stores
DependencyList(src, op_id, repeat) == RemoveFirst(ListOfSet(FindAll(src, repeat)), op_id)

\* extract_op_dependencies(op_id) on an operator with a compute text
RegExtractOpDependencies(op_id, repeat) ==
    /\ Live
    /\ op_id \in DOMAIN operators
    /\ operators[op_id].op_compute_func.present
    /\ LET op_numbers == DependencyList(operators[op_id].op_compute_func, op_id, repeat) IN
        /\ operators' = [operators EXCEPT ![op_id].dependencies = Range(op_numbers),
                                          ![op_id].deps_set = TRUE]
        /\ last' = [op |-> "extract_op_dependencies", arg |-> op_id, ok |-> TRUE,
                    raised |-> "none", returned |-> op_numbers]
    /\ pre' = operators
    /\ UNCHANGED exprVars
    /\ UNCHANGED <<exercised, indexVars, batchVars>>

\* extract_op_dependencies(op_id) on an operator whose op_compute_func is None:
\* re.findall raises TypeError
RegExtractNoText(op_id) ==
    /\ Live
    /\ op_id \in DOMAIN operators
    /\ ~operators[op_id].op_compute_func.present
    /\ last' = [op |-> "extract_op_dependencies", arg |-> op_id, ok |-> FALSE,
                raised |-> "TypeError", returned |-> <<>>]
    /\ pre' = operators
    /\ UNCHANGED exprVars
    /\ UNCHANGED <<operators, exercised, indexVars, batchVars>>

\* self.operators.values(), in key order
ValuesOf(ops) == [i \in 1..Cardinality(DOMAIN ops) |-> ops[SortedKeys(DOMAIN ops)[i]]]

IsUnaryAt(op, position) == op.n_ary = 1 /\ op.unary_position = position
IsBinary(op) == op.n_ary = 2

\* get_unary_and_binary_operators(): the three lists, as the objects they hold
UidsOf(seq) == [i \in DOMAIN seq |-> seq[i].uid]
get_unary_and_binary_operators(ops) ==
    [unary_prefix_ops |-> UidsOf(SelectSeq(ValuesOf(ops), LAMBDA op : IsUnaryAt(op, "prefix"))),
     unary_postfix_ops |-> UidsOf(SelectSeq(ValuesOf(ops), LAMBDA op : IsUnaryAt(op, "postfix"))),
     binary_ops |-> UidsOf(SelectSeq(ValuesOf(ops), LAMBDA op : IsBinary(op)))]

RegGetUnaryAndBinaryOperators ==
    /\ Live
    /\ last' = [op |-> "get_unary_and_binary_operators", arg |-> 0, ok |-> TRUE,
                raised |-> "none", returned |-> get_unary_and_binary_operators(operators)]
    /\ pre' = operators
    /\ UNCHANGED exprVars
    /\ UNCHANGED <<operators, exercised, indexVars, batchVars>>

\* random_operator(existing_symbols): a symbol that is not among them
RegSymbols == RegIds \cup {Max(IdPool) + n : n \in 1..MaxObjects}
SymbolsOf(ops) == {ops[k].symbol : k \in DOMAIN ops}
random_operator(existing_symbols) == RegSymbols \ existing_symbols

\* generate_base_operators, from base n on, symbols[n] being the symbol drawn
\* for base n: the id index, the symbol index and the base index afterwards
RECURSIVE generate_base_operators(_, _, _)
generate_base_operators(st, n, symbols) ==
    IF n > MaxBase THEN st
    ELSE LET uid == FreshIn(st.operators, st.base_operators)
             operator_data ==
                 [has_id |-> TRUE, id |-> NoneInt,
                  record |-> [Record(uid, 0, 1, "None", NoSrc, NoSrc)
                                 EXCEPT !.is_base = Some(n), !.symbol = symbols[n]]]
             r == add_operator(st.operators, operator_data)
         IN generate_base_operators(
                [operators |-> r.ops,
                 symbol_to_operators |-> st.symbol_to_operators \cup {uid},
                 base_operators |-> st.base_operators \cup {<<n, uid>>}],
                n + 1, symbols)

\* the draws random_operator can make, one base after the other
RECURSIVE SymbolDraws(_, _)
SymbolDraws(existing_symbols, n) ==
    IF n > MaxBase THEN {<<>>}
    ELSE UNION {{(n :> s) @@ rest : rest \in SymbolDraws(existing_symbols \cup {s}, n + 1)}
                  : s \in random_operator(existing_symbols)}

RegGenerateBaseOperators(symbols) ==
    /\ Live
    /\ MayConstruct(MaxBase - 1)
    /\ symbols \in SymbolDraws(SymbolsOf(operators), 2)
    /\ LET st == generate_base_operators(
                    [operators |-> operators, symbol_to_operators |-> symbol_to_operators,
                     base_operators |-> base_operators], 2, symbols) IN
        /\ operators' = st.operators
        /\ symbol_to_operators' = st.symbol_to_operators
        /\ base_operators' = st.base_operators
        /\ exercised' = [u \in Uids(st.operators) |->
                            IF u \in DOMAIN exercised THEN exercised[u] ELSE {}]
    /\ last' = [op |-> "generate_base_operators", arg |-> 0, ok |-> TRUE, raised |-> "none",
                returned |-> <<>>]
    /\ pre' = operators
    /\ UNCHANGED exprVars
    /\ UNCHANGED <<available_funcs, batchVars>>

\* NumberNode.to_str of a literal of the given base: the symbol it puts in
\* front, KeyError without a list for the base, AssertionError unless the list
\* holds one operator
NumberToStr(base) ==
    LET op_info == {p \in base_operators : p[1] = base} IN
    IF op_info = {} THEN "KeyError"
    ELSE IF Cardinality(op_info) # 1 THEN "AssertionError"
    ELSE "none"

RegNumberToStr(base) ==
    /\ Live
    /\ last' = [op |-> "to_str", arg |-> base, ok |-> NumberToStr(base) = "none",
                raised |-> NumberToStr(base), returned |-> <<>>]
    /\ pre' = operators
    /\ UNCHANGED exprVars
    /\ UNCHANGED <<operators, exercised, indexVars, batchVars>>

\* _find_all_dependent_operator_ids, line 702: 'op_id in operator.dependencies'
\* is evaluated for every record of the registry, and raises TypeError on a
\* record whose dependencies is None
DependenciesUnset(ops) == \E k \in DOMAIN ops : ~ops[k].deps_set

\* delete_one_operator(op_id), op_id in the registry and every record with a
\* dependency list and procedure texts
RegDeleteOneOperator(op_id) ==
    /\ Live
    /\ op_id \in DOMAIN operators
    /\ ~DependenciesUnset(operators)
    /\ \A k \in DOMAIN operators : operators[k].op_compute_func.present
    /\ LET to_delete_ids == FindAllDependentOperatorIds(operators, op_id, {})
           removed == {operators[k].uid : k \in to_delete_ids}
       IN /\ operators' = DeleteOneOperator(operators, op_id)
          /\ symbol_to_operators' = symbol_to_operators \ removed
          /\ available_funcs' = available_funcs \ to_delete_ids
          /\ exercised' = [u \in (DOMAIN exercised) \ removed |-> exercised[u]]
    /\ last' = [op |-> "delete_one_operator", arg |-> op_id, ok |-> TRUE,
                raised |-> "none", returned |-> <<>>]
    /\ pre' = operators
    /\ UNCHANGED exprVars
    /\ UNCHANGED <<base_operators, batchVars>>

\* delete_one_operator(op_id), op_id in the registry, on a registry that holds
\* a record whose dependencies is None: TypeError out of
\* _find_all_dependent_operator_ids, before remove_operator is called
RegDeleteUnsetDependencies(op_id) ==
    /\ Live
    /\ op_id \in DOMAIN operators
    /\ DependenciesUnset(operators)
    /\ last' = [op |-> "delete_one_operator", arg |-> op_id, ok |-> FALSE,
                raised |-> "TypeError", returned |-> <<>>]
    /\ pre' = operators
    /\ UNCHANGED exprVars
    /\ UNCHANGED <<operators, exercised, indexVars, batchVars>>

NextReg ==
    \/ \E id \in RegGivenIds, shape \in RegShapes :
          RegAddOperator(id, shape)
    \/ \E op_id \in DOMAIN operators : RegRemoveOperator(op_id)
    \/ \E op_id \in RegIds : RegRemoveUnknown(op_id)
    \/ \E op_id \in DOMAIN operators : RegGetOperatorById(op_id)
    \/ \E op_id \in RegIds : RegGetUnknown(op_id)
    \/ \E op_id \in RegIds : RegDeleteUnknown(op_id)
    \/ \E op_id \in DOMAIN operators : RegDeleteOneOperator(op_id)
    \/ \E op_id \in DOMAIN operators : RegDeleteUnsetDependencies(op_id)
    \/ \E op_id \in RegIds : RegExtractUnknown(op_id)
    \/ \E op_id \in DOMAIN operators, repeat \in 1..MaxRepeat :
          RegExtractOpDependencies(op_id, repeat)
    \/ \E op_id \in DOMAIN operators : RegExtractNoText(op_id)
    \/ RegGetUnaryAndBinaryOperators
    \/ \E symbols \in [2..MaxBase -> RegSymbols] : RegGenerateBaseOperators(symbols)
    \/ \E base \in 2..MaxBase : RegNumberToStr(base)

SpecReg == InitReg /\ [][NextReg]_vars

\* ---------------------------------------- one evaluator, many expressions

\* number of expressions the generator hands to its evaluator
MaxExprs == 2
\* operator applications in each of them
MaxEvalApps == 1
EvalBinary == {"+"}
EvalUnary == {"-"}
EvalTrees == Trees(MaxEvalApps, EvalBinary, EvalUnary, NumberLeaves)

\* the evaluator's attributes after __init__: the counters at zero, and
\* neither normalized_expansion_degree nor expr_result an attribute yet
NewEvaluator ==
    [id |-> NoneInt, operation_count |-> 0, all_operators |-> <<>>,
     has_normalized_expansion_degree |-> FALSE, normalized_expansion_degree |-> NoneInt,
     has_expr_result |-> FALSE, expr_result |-> NoneInt]

InitEval ==
    /\ NoRegistry
    /\ tree = <<"None">>
    /\ priority = <<>>
    /\ associativity_direction = <<>>
    /\ with_all_brackets = FALSE
    /\ expr_result = NewEvaluator
    /\ binary_ops = {}
    /\ unary_prefix_ops = {}
    /\ unary_postfix_ops = {}
    /\ frames = 0

\* self.operation_count += 1; self.all_operators[node.operator.id] += 1
CountOperator(self, operator) ==
    [self EXCEPT !.operation_count = @ + 1,
                 !.all_operators = IF operator \in DOMAIN @
                                   THEN [@ EXCEPT ![operator] = @ + 1]
                                   ELSE (operator :> 1) @@ @]

\* the counters one call of tree_to_str leaves: each application node counts
\* itself, then renders its children
RECURSIVE CountedByTreeToStr(_, _)
CountedByTreeToStr(self, node) ==
    CASE node[1] = "binary" ->
            CountedByTreeToStr(CountedByTreeToStr(CountOperator(self, node[3]), node[4]),
                               node[5])
      [] node[1] = "unary" -> CountedByTreeToStr(CountOperator(self, node[3]), node[4])
      [] OTHER -> self

\* init_expr(expression_tree, id, op_mode): the counters are put back to zero,
\* then tree_to_str renders the tree once in op_mode, and twice otherwise
\* (with and without base symbols)
init_expr(self, expression_tree, id, op_mode) ==
    LET reset == [self EXCEPT !.id = Some(id), !.operation_count = 0,
                              !.all_operators = <<>>]
        once == CountedByTreeToStr(reset, expression_tree)
    IN IF op_mode THEN once ELSE CountedByTreeToStr(once, expression_tree)

\* create_expression / create_expression_str: the next expression reaches the
\* evaluator that the generator made in its __init__
EvalInitExpr(expression_tree, op_mode) ==
    LET id == IF IsNone(expr_result.id) THEN 0 ELSE Val(expr_result.id) + 1 IN
    /\ id < MaxExprs
    /\ tree' = expression_tree
    /\ expr_result' = init_expr(expr_result, expression_tree, id, op_mode)
    /\ last' = [op |-> "init_expr", arg |-> op_mode, ok |-> TRUE, raised |-> "none",
                returned |-> <<>>]
    /\ UNCHANGED <<operators, pre, exercised, indexVars, batchVars, priority,
                   associativity_direction, with_all_brackets, binary_ops,
                   unary_prefix_ops, unary_postfix_ops, frames>>

\* the else branch of calculate_normalized_expansion_degree and of
\* calculate_result: the fold of self.expression_tree, kept in both attributes
FoldAndKeep(self, r) ==
    [self EXCEPT !.has_normalized_expansion_degree = TRUE,
                 !.normalized_expansion_degree = r.degree,
                 !.has_expr_result = TRUE,
                 !.expr_result = r.result]

\* a query that finds its attribute (has = TRUE) returns it; one that does
\* not folds the tree, and keeps the pair unless the fold raises
Query(name, has, kept, attribute) ==
    /\ ~IsNone(expr_result.id)
    /\ LET r == calculate_normalized_expansion_degree_node(tree) IN
        IF has
        THEN /\ last' = [op |-> name, arg |-> 0, ok |-> TRUE, raised |-> "none",
                         returned |-> kept]
             /\ UNCHANGED expr_result
        ELSE IF r.raised # "none"
        THEN /\ last' = [op |-> name, arg |-> 0, ok |-> FALSE, raised |-> r.raised,
                         returned |-> <<>>]
             /\ UNCHANGED expr_result
        ELSE /\ last' = [op |-> name, arg |-> 0, ok |-> TRUE, raised |-> "none",
                         returned |-> r[attribute]]
             /\ expr_result' = FoldAndKeep(expr_result, r)
    /\ UNCHANGED <<operators, pre, exercised, indexVars, batchVars, tree, priority,
                   associativity_direction, with_all_brackets, binary_ops,
                   unary_prefix_ops, unary_postfix_ops, frames>>

\* calculate_normalized_expansion_degree()
EvalCalculateNormalizedExpansionDegree ==
    Query("calculate_normalized_expansion_degree",
          expr_result.has_normalized_expansion_degree,
          expr_result.normalized_expansion_degree, "degree")

\* calculate_result()
EvalCalculateResult ==
    Query("calculate_result", expr_result.has_expr_result, expr_result.expr_result,
          "result")

NextEval ==
    \/ \E expression_tree \in EvalTrees, op_mode \in BOOLEAN :
          EvalInitExpr(expression_tree, op_mode)
    \/ EvalCalculateNormalizedExpansionDegree
    \/ EvalCalculateResult

SpecEval == InitEval /\ [][NextEval]_vars

\* ------------------------------------- generate_expression, draw by draw

\* the interpreter's recursion limit, counted in generate_expression calls
\* that one call at a depth can stack up by drawing again
MaxFrames == 3
RecursionError == <<"RecursionError">>

\* generate_expression(0, max_depth, "number") has been called
InitDraw ==
    /\ NoRegistry
    /\ tree = NoneNode
    /\ priority = <<>>
    /\ associativity_direction = <<>>
    /\ with_all_brackets = FALSE
    /\ expr_result = <<"None">>
    /\ binary_ops \in SUBSET GenBinary
    /\ unary_prefix_ops \in SUBSET GenUnaryPrefix
    /\ unary_postfix_ops \in SUBSET GenUnaryPostfix
    /\ frames = 1

Drawing == frames > 0

\* the chosen category's pool is empty: return self.generate_expression(
\* cur_depth, max_depth, atom_choice), one more call on the stack, which the
\* interpreter refuses at its limit
DrawEmptyPool(expr_type) ==
    /\ Drawing
    /\ ~AtMaxDepth(0, MaxDepth)
    /\ expr_type \notin Drawable
    /\ IF frames < MaxFrames
       THEN /\ frames' = frames + 1
            /\ last' = [op |-> "draw", arg |-> MaxDepth, ok |-> TRUE,
                        expr_type |-> expr_type]
            /\ UNCHANGED <<tree, expr_result>>
       ELSE /\ frames' = 0
            /\ tree' = RecursionError
            /\ expr_result' = RecursionError
            /\ last' = [op |-> "generate_expression", arg |-> MaxDepth, ok |-> FALSE,
                        expr_type |-> expr_type]
    /\ UNCHANGED <<operators, pre, exercised, indexVars, batchVars, priority,
                   associativity_direction, with_all_brackets, binary_ops,
                   unary_prefix_ops, unary_postfix_ops>>

\* the chosen category can be built: the branch runs, every call on the stack
\* returns what it returns
DrawSettled(expr_type) ==
    /\ Drawing
    /\ ~AtMaxDepth(0, MaxDepth)
    /\ expr_type \in Drawable
    /\ \E result \in DrawnAs(expr_type, 0, MaxDepth, "number") :
          /\ tree' = result
          /\ expr_result' = result
          /\ last' = [op |-> "generate_expression", arg |-> MaxDepth,
                      ok |-> IsNode(result), expr_type |-> expr_type]
    /\ frames' = 0
    /\ UNCHANGED <<operators, pre, exercised, indexVars, batchVars, priority,
                   associativity_direction, with_all_brackets, binary_ops,
                   unary_prefix_ops, unary_postfix_ops>>

NextDraw ==
    \/ \E expr_type \in ExprTypes : DrawEmptyPool(expr_type)
    \/ \E expr_type \in ExprTypes : DrawSettled(expr_type)

SpecDraw == InitDraw /\ [][NextDraw]_vars

\* random.choices with a positive weight for "atoms": a call that keeps
\* drawing draws "atoms" at some time
SpecDrawFair == SpecDraw /\ SF_vars(DrawSettled("atoms"))

\* ------------------------- generate_operator_type, statement by statement

\* where the loop body stands: at the loop head ("loop", from InitBatch), or
\* with its candidate
\*   "added"       add_operator has returned new_operator
\*   "cleared"     is_temporary = False is done, the definition is to be parsed
\*   "parsed"      def_tree is a tree
\*   "to_check"    the procedures are to be syntax-checked
\*   "to_run"      the procedures are to be run on the test inputs
CandPositions == {"added", "cleared", "parsed", "to_check", "to_run"}

Candidate == last.arg

At(position) == pc = position /\ position \in CandPositions

Step(name, cr, ok, text) ==
    [op |-> name, arg |-> cr.data.id, ok |-> ok, cr |-> cr, text |-> text]

\* operator_data = create_operator_info(choice) gives None or raises
CandCreateRaises(cr) ==
    /\ Iterating
    /\ cr.result # "data"
    /\ pc' = "crashed"
    /\ attempts' = attempts + 1
    /\ last' = Step("create_raised", cr, FALSE, "none")
    /\ pre' = operators
    /\ UNCHANGED exprVars
    /\ UNCHANGED <<operators, exercised, indexVars, operator_type, num,
                   generated_count, temp_file, final_file>>

\* operator_data = create_operator_info(choice);
\* new_operator = add_operator(operator_data)
CandAdd(cr) ==
    /\ Iterating
    /\ cr.result = "data"
    /\ operators' = AddOperator(cr.ops, cr.data)
    /\ symbol_to_operators' = symbol_to_operators \cup {cr.data.uid}
    /\ exercised' = (cr.data.uid :> {}) @@ Granted(cr)
    /\ attempts' = attempts + 1
    /\ pc' = "added"
    /\ last' = Step("add_operator", cr, TRUE, "none")
    /\ pre' = operators
    /\ UNCHANGED exprVars
    /\ UNCHANGED <<available_funcs, base_operators, operator_type, num, generated_count,
                   temp_file, final_file>>

\* a statement that touches the candidate's record only
OnCandidate(record, position, name, ok, text) ==
    /\ operators' = [operators EXCEPT ![Candidate] = record]
    /\ pc' = position
    /\ last' = [last EXCEPT !.op = name, !.ok = ok, !.text = text]
    /\ pre' = operators
    /\ UNCHANGED exprVars
    /\ UNCHANGED <<exercised, indexVars, operator_type, num, generated_count, attempts,
                   temp_file, final_file>>

\* remove_operator(new_operator.id); continue
RemoveCandidate(name) ==
    /\ operators' = RemoveOperator(operators, Candidate)
    /\ symbol_to_operators' = symbol_to_operators \ {operators[Candidate].uid}
    /\ available_funcs' = available_funcs \ {Candidate}
    /\ exercised' = [u \in (DOMAIN exercised) \ {operators[Candidate].uid} |-> exercised[u]]
    /\ pc' = "loop"
    /\ last' = [last EXCEPT !.op = name, !.ok = FALSE]
    /\ pre' = operators
    /\ UNCHANGED exprVars
    /\ UNCHANGED <<base_operators, operator_type, num, generated_count, attempts,
                   temp_file, final_file>>

\* new_operator.is_temporary = False, the statement after add_operator; a
\* recursive_definition is not parsed
ClearTemporary(record) == [record EXCEPT !.is_temporary = FALSE]
CandClear ==
    /\ At("added")
    /\ OnCandidate(ClearTemporary(operators[Candidate]),
                   IF operator_type = "recursive_definition" THEN "to_check" ELSE "cleared",
                   "clear", TRUE, "none")

\* def_tree = parser.parse_definition(new_operator.definition) raises
CandParseFails(parsed) ==
    /\ At("cleared")
    /\ parsed = "raises"
    /\ RemoveCandidate("parse_failed")

\* def_tree is None, no procedure is generated, or def_tree is a tree
CandParse(parsed) ==
    /\ At("cleared")
    /\ parsed # "raises"
    /\ OnCandidate(operators[Candidate], IF parsed = "None" THEN "to_check" ELSE "parsed",
                   "parse", TRUE, "none")

\* transformer.generate_function(...) raises
CandTransformFails(transformed) ==
    /\ At("parsed")
    /\ transformed = "raises"
    /\ RemoveCandidate("transform_failed")

\* new_operator.op_compute_func, new_operator.op_count_func = generate_function(...);
\* new_operator.is_temporary = True
CandTransform(transformed, calls) ==
    /\ At("parsed")
    /\ transformed # "raises"
    /\ transformed = "unparsable" => calls = {}
    /\ OnCandidate([operators[Candidate] EXCEPT !.op_compute_func = Src(Candidate, calls),
                                                !.op_count_func = Src(Candidate, calls),
                                                !.is_temporary = TRUE],
                   "to_check", "transform", TRUE, transformed)

\* test_syntax_validity: ast.parse(None) raises TypeError, a text that does
\* not parse makes the loop continue with the candidate left in the registry
CandCheckSyntax ==
    /\ At("to_check")
    /\ OnCandidate(operators[Candidate],
                   IF ~operators[Candidate].op_compute_func.present THEN "crashed"
                   ELSE IF last.text = "unparsable" THEN "loop"
                   ELSE "to_run",
                   "check_syntax",
                   operators[Candidate].op_compute_func.present /\ last.text # "unparsable",
                   last.text)

\* is_executable is False: remove_operator
CandRunFails ==
    /\ At("to_run")
    /\ RemoveCandidate("exec_failed")

\* is_executable is True: is_temporary = False, extract_op_dependencies,
\* calculate_order (which raises on an order that is None),
\* add_available_funcs, save_operator_to_temp, generated_count += 1
CandAccept(behaviour) ==
    /\ At("to_run")
    /\ behaviour \in RunBehaviours(last.cr, operators[Candidate].op_compute_func.calls)
    /\ LET extracted == ExtractOpDependencies(
                           [operators EXCEPT ![Candidate].is_temporary = FALSE], Candidate)
       IN IF OrderComputable(extracted, Candidate)
          THEN /\ operators' = CalculateOrder(extracted, Candidate)
               /\ available_funcs' = available_funcs \cup {Candidate}
               /\ temp_file' = Append(temp_file, operators[Candidate].uid)
               /\ generated_count' = generated_count + 1
               /\ pc' = IF generated_count + 1 < num THEN "loop" ELSE "done"
               /\ last' = [last EXCEPT !.op = "accepted", !.ok = TRUE]
          ELSE /\ operators' = extracted
               /\ pc' = "crashed"
               /\ last' = [last EXCEPT !.op = "order_raised", !.ok = FALSE]
               /\ UNCHANGED <<available_funcs, temp_file, generated_count>>
    /\ pre' = operators
    /\ UNCHANGED exprVars
    /\ UNCHANGED <<exercised, symbol_to_operators, base_operators, operator_type, num,
                   attempts, final_file>>

NextCand ==
    \/ \E cr \in CreateOperatorInfo(operators, operator_type) : CandCreateRaises(cr)
    \/ \E cr \in CreateOperatorInfo(operators, operator_type) : CandAdd(cr)
    \/ CandClear
    \/ \E parsed \in ParseResults : CandParseFails(parsed)
    \/ \E parsed \in ParseResults : CandParse(parsed)
    \/ \E transformed \in TransformResults : CandTransformFails(transformed)
    \/ \E transformed \in TransformResults, calls \in CallSets(operators) :
          CandTransform(transformed, calls)
    \/ CandCheckSyntax
    \/ CandRunFails
    \/ \E behaviour \in Behaviours : CandAccept(behaviour)

SpecCand == InitBatch /\ [][NextCand]_vars

\* ------------------------- one generator, expressions in both renderings

ModeTrees == Trees(MaxEvalApps, RenderBinary, RenderUnary, NumberLeaves)

\* the generator and its evaluator after __init__: no expression yet, the
\* evaluator's with_all_brackets False
InitMode ==
    /\ NoRegistry
    /\ tree = <<"None">>
    /\ priority \in [RenderBinary \cup RenderUnary -> 1..MaxPriority]
    /\ associativity_direction = [o \in RenderBinary \cup RenderUnary |->
                                     IF o \in RenderBinary THEN "left" ELSE "None"]
    /\ with_all_brackets = FALSE
    /\ expr_result = [created |-> 0, expression_str |-> <<>>]
    /\ binary_ops = {}
    /\ unary_prefix_ops = {}
    /\ unary_postfix_ops = {}
    /\ frames = 0

Created(name, expression_tree, op_mode) ==
    /\ expr_result.created < MaxExprs
    /\ tree' = expression_tree
    /\ expr_result' = [created |-> expr_result.created + 1,
                       expression_str |->
                           tree_to_str(expression_tree, "None", with_all_brackets', op_mode)]
    /\ last' = [op |-> name, arg |-> 0, ok |-> TRUE]
    /\ UNCHANGED <<operators, pre, exercised, indexVars, batchVars, priority,
                   associativity_direction, binary_ops, unary_prefix_ops,
                   unary_postfix_ops, frames>>

\* create_expression(atom_choice): init_expr(expression_tree, cur_expr_id); the
\* evaluator's with_all_brackets is left as it is
ModeCreateExpression(expression_tree) ==
    /\ UNCHANGED with_all_brackets
    /\ Created("create_expression", expression_tree, FALSE)

\* create_expression_str(atom_choice): set_with_all_brackets(True), then
\* init_expr(expression_tree, cur_expr_id, op_mode=True)
ModeCreateExpressionStr(expression_tree) ==
    /\ with_all_brackets' = TRUE
    /\ Created("create_expression_str", expression_tree, TRUE)

NextMode ==
    \/ \E expression_tree \in ModeTrees : ModeCreateExpression(expression_tree)
    \/ \E expression_tree \in ModeTrees : ModeCreateExpressionStr(expression_tree)

SpecMode == InitMode /\ [][NextMode]_vars

\* ------------------------------ tree_to_str over operators of both fixednesses

FixBinary == {"+"}
FixUnaryPrefix == {"-"}
FixUnaryPostfix == {"!"}
FixOperators == FixBinary \cup FixUnaryPrefix \cup FixUnaryPostfix

\* operator.unary_position of the OperatorInfo a node carries
unary_position(operator) ==
    IF operator \in FixUnaryPrefix THEN "prefix"
    ELSE IF operator \in FixUnaryPostfix THEN "postfix"
    ELSE "None"

\* generate_lhs(op_symbol, op_type, op_position): the left-hand side of the
\* operator's definition over the operand names
generate_lhs(op_symbol, op_type, op_position) ==
    IF op_type = "unary"
    THEN IF op_position = "prefix" THEN <<op_symbol, LeftOperand>>
         ELSE IF op_position = "postfix" THEN <<LeftOperand, op_symbol>>
         ELSE <<"ValueError">>
    ELSE IF op_type = "binary" THEN <<LeftOperand, op_symbol, RightOperand>>
    ELSE <<"ValueError">>

\* an evaluator and a tree over operators of either fixedness
InitFix ==
    /\ NoRegistry
    /\ tree \in Trees(MaxEvalApps, FixBinary, FixUnaryPrefix \cup FixUnaryPostfix,
                      NumberLeaves)
    /\ priority \in [FixOperators -> 1..MaxPriority]
    /\ associativity_direction = [o \in FixOperators |->
                                     IF o \in FixBinary THEN "left" ELSE "None"]
    /\ with_all_brackets = FALSE
    /\ expr_result = <<"None">>
    /\ binary_ops = {}
    /\ unary_prefix_ops = {}
    /\ unary_postfix_ops = {}
    /\ frames = 0

SpecFix == InitFix /\ [][NextRender]_vars

\* ------------------------------- one generator over a registry that changes

\* the largest expr_max_depth of the generator's configuration
MaxPoolDepth == 1
PoolAtomChoices == {"variable"}

\* the ids of the registry the generator is constructed over
PoolKeySets == {{}, {1, 3}}

\* select_op.is_base, read from the object the pool holds: add_operator lists
\* every object with a base in base_operators and no call takes one out
IsBaseObject(uid) == \E p \in base_operators : p[2] = uid

NotImplementedError == <<"NotImplementedError">>
SystemExit == <<"SystemExit">>

\* 'if select_op.is_base: print("error"); exit(1)' in the unary_prefix branch
ExitsOn(result) ==
    \E n \in Nodes(result) : n[1] = "unary" /\ IsBaseObject(n[3])

\* ExpressionGenerator.__init__ over a loaded registry: the pools are filled
\* from get_unary_and_binary_operators(), the unary ones without base operators
InitPools ==
    /\ \E K \in PoolKeySets : operators = RegStore(K)
    /\ pre = operators
    /\ last = NoOp
    /\ exercised = [u \in Uids(operators) |-> {}]
    /\ LoadedIndexes
    /\ NoBatch
    /\ tree = NoneNode
    /\ priority = <<>>
    /\ associativity_direction = <<>>
    /\ with_all_brackets = FALSE
    /\ expr_result = <<"None">>
    /\ LET pools == get_unary_and_binary_operators(operators)
       IN /\ binary_ops = Range(pools.binary_ops)
          /\ unary_prefix_ops = {u \in Range(pools.unary_prefix_ops) : ~IsBaseObject(u)}
          /\ unary_postfix_ops = {u \in Range(pools.unary_postfix_ops) : ~IsBaseObject(u)}
    /\ frames = 0

\* what the call makes of the value generate_expression gives: the tree is
\* handed to init_expr, None makes tree_to_str raise, and a draw of a base
\* operator ends the process
Expressed(name, result) ==
    /\ tree' = IF IsNode(result) /\ ~ExitsOn(result) THEN result ELSE tree
    /\ last' = [op |-> name, arg |-> 0,
                ok |-> IsNode(result) /\ ~ExitsOn(result),
                raised |-> IF ~IsNode(result)
                           THEN IF result = NoneNode THEN NotImplementedError ELSE result
                           ELSE IF ExitsOn(result) THEN SystemExit ELSE <<"none">>,
                returned |-> <<>>]
    /\ pre' = operators
    /\ UNCHANGED <<operators, exercised, indexVars, batchVars, priority,
                   associativity_direction, with_all_brackets, expr_result, frames>>

\* create_expression(atom_choice): generate_expression over the pools the
\* generator holds
PoolCreateExpression(atom_choice) ==
    /\ Live \/ (last.op = "create_expression_str" /\ last.ok)
    /\ UNCHANGED <<binary_ops, unary_prefix_ops, unary_postfix_ops>>
    /\ \E result \in generate_expression(0, MaxPoolDepth, atom_choice) :
          Expressed("create_expression", result)

\* create_expression_str(atom_choice): the pools are assigned anew from
\* get_unary_and_binary_operators(), as they come, before generate_expression
PoolCreateExpressionStr(atom_choice) ==
    /\ Live
    /\ LET pools == get_unary_and_binary_operators(operators)
       IN /\ binary_ops' = Range(pools.binary_ops)
          /\ unary_prefix_ops' = Range(pools.unary_prefix_ops)
          /\ unary_postfix_ops' = Range(pools.unary_postfix_ops)
    /\ \E result \in generate_expression(0, MaxPoolDepth, atom_choice)' :
          Expressed("create_expression_str", result)

NextPools ==
    \/ \E shape \in RegShapes : RegAddOperator(NoneInt, shape)
    \/ \E op_id \in DOMAIN operators : RegRemoveOperator(op_id)
    \/ \E op_id \in DOMAIN operators : RegDeleteOneOperator(op_id)
    \/ \E atom_choice \in PoolAtomChoices : PoolCreateExpression(atom_choice)
    \/ \E atom_choice \in PoolAtomChoices : PoolCreateExpressionStr(atom_choice)

SpecPools == InitPools /\ [][NextPools]_vars

\* ------------------------- callee selection on a registry with base operators

\* the registry loaded from a file that generate_base_operators has been saved
\* to: a binary and a unary operator and the operators of the bases; the
\* bitmasks and flags are not written to the file and start at their defaults
InitCallee ==
    /\ operators = GenerateBaseOperators(RecStore, 2)
    /\ pre = operators
    /\ last = NoOp
    /\ exercised = [u \in Uids(operators) |-> {}]
    /\ LoadedIndexes
    /\ NoBatch
    /\ NoExpr

NextCallee ==
    \/ \E c \in DOMAIN operators : GetRandomRecursiveCallOperator(c)
    \/ \E c \in DOMAIN operators, po \in ParamOrders : GenerateRecursiveOperatorDataByLoop(c, po)

SpecCallee == InitCallee /\ [][NextCallee]_vars

\* ------------------------------------------------ delete_cascade claims
\* the keys from which a chain of dependencies leads into S (S included)
RECURSIVE DependsOnStar(_, _)
DependsOnStar(ops, S) ==
    LET T == S \cup {k \in DOMAIN ops : ops[k].dependencies \cap S # {}}
    IN IF T = S THEN S ELSE DependsOnStar(ops, T)

Deleted == last.op = "delete_cascade" /\ last.ok
\* the surviving records, by identity, and the key each had before
Survivors == Uids(operators) \cap Uids(pre)
OldKey(u) == KeyOf(pre, u)
NewKey(u) == KeyOf(operators, u)
\* the id a token op_<c> of the old text refers to after the renumbering
NewIdOfOld(c) ==
    IF c \in DOMAIN pre /\ pre[c].uid \in Uids(operators) THEN NewKey(pre[c].uid) ELSE c

\* C1: delete_cascade(X) removes exactly the records from which a chain of
\* dependencies leads to X (X included) and no other record
C1_CascadeRemovesExactlyClosure ==
    Deleted =>
        Uids(operators) = Uids(pre) \ {pre[k].uid : k \in DependsOnStar(pre, {last.arg})}

C1_Witness ==
    /\ Deleted
    /\ operators # <<>>
    /\ \E k \in DOMAIN pre :
          /\ k # last.arg
          /\ last.arg \notin pre[k].dependencies
          /\ pre[k].uid \notin Uids(operators)

\* C2: after delete_cascade every id token of a survivor's compute and cost
\* source (the header, the calls to others, the calls to itself) carries the
\* new id of the operator it named before, so the ids of the compute source
\* minus the record's own id are the stored dependency list
C2_SourceIdsFollowRenumbering ==
    Deleted =>
        \A u \in Survivors :
            LET o == operators[NewKey(u)]
                p == pre[OldKey(u)]
            IN  /\ o.op_compute_func.hdr = o.id
                /\ o.op_count_func.hdr = o.id
                /\ o.op_compute_func.calls = {NewIdOfOld(c) : c \in p.op_compute_func.calls}
                /\ o.op_count_func.calls = {NewIdOfOld(c) : c \in p.op_count_func.calls}
                /\ FindAllIds(o.op_compute_func) \ {o.id} = o.dependencies

\* C3: after delete_cascade every dependency of a survivor is the key of a
\* survivor, and of the very record the old id named
C3_DependenciesFollowRenumbering ==
    Deleted =>
        \A u \in Survivors :
            LET o == operators[NewKey(u)]
                p == pre[OldKey(u)]
            IN  /\ o.dependencies \subseteq DOMAIN operators
                /\ Cardinality(o.dependencies) = Cardinality(p.dependencies)
                /\ {operators[d].uid : d \in o.dependencies \cap DOMAIN operators}
                       = {pre[d].uid : d \in p.dependencies}

C3_Witness ==
    /\ Deleted
    /\ \E u \in Survivors :
          /\ NewKey(u) # OldKey(u)
          /\ \E d \in pre[OldKey(u)].dependencies : NewIdOfOld(d) # d

\* C4: after delete_cascade with N survivors the keys are exactly 1..N, every
\* record's id field is its key, and the survivors keep their relative order
C4_DenseIdsAfterDelete ==
    Deleted =>
        /\ DOMAIN operators = 1..Cardinality(DOMAIN operators)
        /\ \A k \in DOMAIN operators : operators[k].id = k
        /\ \A u, v \in Survivors : OldKey(u) < OldKey(v) => NewKey(u) < NewKey(v)

C4_Witness ==
    /\ Deleted
    /\ Cardinality(DOMAIN operators) >= 2
    /\ \E u \in Survivors : NewKey(u) # OldKey(u)
    /\ \E k \in DOMAIN pre : k > Cardinality(DOMAIN pre)

\* --------------------------------------------- recursion-safety claims
\* the routings a unary caller can use on a binary callee (line 827)
UnaryCallerParamOrders ==
    {<<"result", "result">>, <<"result", LeftOperand>>, <<LeftOperand, "result">>}

\* the call-patterns of a callee: 2 for a unary one, 5 + 3 for a binary one
PatternsOf(n_ary) ==
    IF n_ary = 1 THEN {<<"binary">>, <<"unary">>}
    ELSE {<<"binary", po>> : po \in LoopParamOrders}
             \cup {<<"unary", po>> : po \in UnaryCallerParamOrders}

\* C6: a recursive-by-loop candidate over callee c is produced only if the
\* bit of its (caller-arity, routing) case was clear, i.e. the case was not
\* granted on c before; producing it sets that bit and nothing else; if the
\* case was used already no record is returned and nothing changes
C6_LoopCandidateFlipsOneFreshBit ==
    last.op = "generate_loop" =>
        LET c == last.arg
            b == Val(last.bit)
        IN  /\ last.ret = "data" =>
                  /\ last.fresh
                  /\ ~BitIsSet(pre[c].recursive_used_cases, b)
                  /\ operators[c].recursive_used_cases = pre[c].recursive_used_cases + Pow2(b)
                  /\ \A k \in (DOMAIN pre) \ {c} : operators[k] = pre[k]
                  /\ [operators[c] EXCEPT !.recursive_used_cases = 0, !.is_recursion_enabled = TRUE]
                        = [pre[c] EXCEPT !.recursive_used_cases = 0, !.is_recursion_enabled = TRUE]
            /\ last.ret = "None" =>
                  /\ ~last.fresh
                  /\ BitIsSet(pre[c].recursive_used_cases, b)
                  /\ operators = pre

C6_Witness ==
    /\ last.op = "generate_loop"
    /\ last.ret = "None"
    /\ pre[last.arg].n_ary = 2
    /\ \E b \in 0..4 : ~BitIsSet(pre[last.arg].recursive_used_cases, b)

\* C7: is_recursion_enabled is false exactly when all call-patterns of the
\* callee were granted (2 for a unary callee, 8 for a binary one), and a
\* check on a saturated callee is never granted
C7_SaturationExactlyWhenAllPatterns ==
    /\ Cardinality(PatternsOf(1)) = 2
    /\ Cardinality(PatternsOf(2)) = 8
    /\ \A k \in DOMAIN operators :
          ~operators[k].is_recursion_enabled
              <=> exercised[operators[k].uid] = PatternsOf(operators[k].n_ary)
    /\ (last.op = "check_and_set" /\ ~pre[last.arg].is_recursion_enabled)
          => last.ret # "True"

C7_Witness ==
    /\ last.op = "check_and_set"
    /\ last.ret = "False"
    /\ \E k, j \in DOMAIN pre :
          /\ pre[k].n_ary = 1 /\ ~pre[k].is_recursion_enabled
          /\ pre[j].n_ary = 2 /\ ~pre[j].is_recursion_enabled

\* every bit of mask m is a bit of mask n
MaskSubset(m, n) == \A b \in 0..7 : BitIsSet(m, b) => BitIsSet(n, b)

\* C8: no step clears a bit of a record's recursion-usage bitmask or turns
\* its recursion-enabled flag from false to true, and the operator returned
\* by get_random_recursive_call_operator has the flag true
C8_MaskMonotoneAndCalleeEnabled ==
    [][ /\ \A k \in DOMAIN operators : \A j \in DOMAIN operators' :
              operators[k].uid = operators'[j].uid =>
                  /\ MaskSubset(operators[k].recursive_used_cases,
                                operators'[j].recursive_used_cases)
                  /\ ~operators[k].is_recursion_enabled => ~operators'[j].is_recursion_enabled
        /\ (last'.op \in {"get_random", "generate_loop"} /\ last'.ok)
              => operators[last'.arg].is_recursion_enabled
      ]_vars

C8_Witness ==
    /\ last.op = "get_random"
    /\ last.ok
    /\ \E k \in DOMAIN operators : ~operators[k].is_recursion_enabled

\* ------------------------------------------------- generation-batch claims
\* the keys of the records generate_operator_type accepted
Accepted ==
    {k \in DOMAIN operators : \E i \in 1..Len(temp_file) : temp_file[i] = operators[k].uid}

\* the keys of the records generate_operator_type added and left in place
Candidates == {k \in DOMAIN operators : operators[k].uid > Max(IdPool)}

\* every dependency of record k is in the registry with an order that is set
DependencyOrdersKnown(k) ==
    /\ operators[k].dependencies \subseteq DOMAIN operators
    /\ \A d \in operators[k].dependencies : ~IsNone(operators[d].n_order)

\* C5: every accepted operator has order 1 when its dependency set is empty,
\* otherwise the greatest order among its dependencies, plus 1 when its
\* definition kind is recursive; so its order is >= 1 when the orders of its
\* dependencies are
C5_OrderIsMaxOfDependencies ==
    \A k \in Accepted :
        LET o == operators[k]
            deps == o.dependencies
        IN  /\ o.deps_set
            /\ deps = {} => o.n_order = Some(1)
            /\ (deps # {} /\ DependencyOrdersKnown(k)) =>
                  \E d \in deps :
                      /\ \A e \in deps : Val(operators[e].n_order) <= Val(operators[d].n_order)
                      /\ o.n_order =
                            Some(Val(operators[d].n_order)
                                 + IF o.definition_type = "recursive_definition" THEN 1 ELSE 0)
            /\ (DependencyOrdersKnown(k) /\ \A d \in deps : Val(operators[d].n_order) >= 1)
                  => (~IsNone(o.n_order) /\ Val(o.n_order) >= 1)

C5_Witness ==
    \E k \in Accepted :
        /\ DependencyOrdersKnown(k)
        /\ \E d, e \in operators[k].dependencies :
              Val(operators[d].n_order) < Val(operators[e].n_order)
        /\ operators[k].n_order = Some(2)

\* C9: when the loop goes on to the next candidate (or returns), a candidate
\* that failed a validation step is in no registry index: every record the
\* batch left in operators or symbol_to_operators is an accepted one
C9_FailedCandidatesAreDiscarded ==
    pc \in {"loop", "done"} =>
        /\ Candidates \subseteq Accepted
        /\ \A u \in symbol_to_operators :
              u > Max(IdPool) => \E i \in 1..Len(temp_file) : temp_file[i] = u
        /\ (last.op = "iterate" /\ ~last.ok) =>
              /\ last.uid \notin Uids(operators)
              /\ last.uid \notin symbol_to_operators

\* C10: a candidate whose procedure raises on a tested input or returns a
\* value that is neither an integer nor 'NaN' is never accepted: it is not
\* written to the store, and no dependencies or order are computed for it
C10_FailingCandidateNeverAccepted ==
    (last.op = "iterate" /\ last.behaviour \in {"raises", "bad_value"}) =>
        /\ \A i \in 1..Len(temp_file) : temp_file[i] # last.uid
        /\ \A k \in DOMAIN operators :
              operators[k].uid = last.uid =>
                  (~operators[k].deps_set /\ IsNone(operators[k].n_order))

\* C11: when the generator returns no record because the recursion-safety
\* check rejected the candidate, generate_operator_type raises nothing and
\* goes on to the next attempt, with the registry and generated_count as
\* they were
C11_RejectedRoutingIsRetried ==
    (last.op = "iterate" /\ last.created = "None") =>
        /\ pc = "loop"
        /\ operators = pre
        /\ Candidates \subseteq Accepted
        /\ generated_count = Len(temp_file)

\* the records of the registry that a generation batch made and that are not
\* base operators
BatchMade(u) ==
    \E k \in DOMAIN operators :
        /\ operators[k].uid = u
        /\ u > Max(IdPool)
        /\ IsNone(operators[k].is_base)

\* C12: every non-base record a generation batch wrote to the temp file or to
\* the final file is one of a candidate that passed the compile and the
\* execution validation, that is, one the acceptance branch handled
C12_OnlyValidatedCandidatesPersisted ==
    /\ \A i \in 1..Len(final_file) :
          BatchMade(final_file[i]) => \E j \in 1..Len(temp_file) : temp_file[j] = final_file[i]
    /\ (last.op = "iterate" /\ ~last.ok) =>
          \A j \in 1..Len(temp_file) : temp_file[j] # last.uid


\* ------------------------------------------------------------ fold claims
HasVariable(node) == \E n \in Nodes(node) : n[1] = "variable"

\* C13: the fold of a tree that holds a Variable leaf returns NaN for the cost
\* and for the value, whatever operators the tree applies, and hands no
\* procedure a NaN operand.
C13_VariableLeafFoldsToNaN ==
    (last.op = "fold" /\ HasVariable(tree)) =>
        /\ expr_result.raised = "none"
        /\ expr_result.degree = NaN
        /\ expr_result.result = NaN
        /\ ~expr_result.seen.nan_operand

\* C14: when the value procedure or the cost procedure of an applied operator,
\* unary or binary, returns NaN, the fold of the tree returns (NaN, NaN) and
\* raises nothing.
C14_NaNFromProcedureFoldsToNaN ==
    (last.op = "fold" /\ expr_result.seen.nan_returned) =>
        /\ expr_result.raised = "none"
        /\ expr_result.degree = NaN
        /\ expr_result.result = NaN

\* ------------------------------------------------------- rendering claims
\* the binary nodes of a tree, each with the operator of its parent
RECURSIVE BinaryNodesUnder(_, _)
BinaryNodesUnder(node, parent_op) ==
    CASE node[1] = "binary" ->
            {<<node, parent_op>>} \cup BinaryNodesUnder(node[4], node[3])
                                  \cup BinaryNodesUnder(node[5], node[3])
      [] node[1] = "unary" -> BinaryNodesUnder(node[4], node[3])
      [] OTHER -> {}

\* the rendering of a binary node without brackets of its own
Bare(node, op_mode) ==
    tree_to_str(node[4], node[3], FALSE, op_mode) \o <<node[3]>>
        \o tree_to_str(node[5], node[3], FALSE, op_mode)

ShouldBracket(node, parent_op) ==
    /\ parent_op # "None"
    /\ \/ priority[node[3]] < priority[parent_op]
       \/ /\ priority[node[3]] = priority[parent_op]
          /\ \/ associativity_direction[parent_op] = "left" /\ node[2] = "right"
             \/ associativity_direction[parent_op] = "right" /\ node[2] = "left"

Rendered == last.op = "tree_to_str" /\ ~with_all_brackets

\* C15: with with_all_brackets off, a binary node is rendered inside brackets
\* exactly when it has a parent operator and its priority is lower than the
\* parent's, or equal with the parent left-associative and the node on the
\* right, or the parent right-associative and the node on the left; the root
\* is never bracketed.
C15_BracketsExactlyWhenNeeded ==
    Rendered =>
        /\ expr_result.str = tree_to_str(tree, "None", FALSE, expr_result.op_mode)
        /\ tree[1] = "binary" => expr_result.str = Bare(tree, expr_result.op_mode)
        /\ \A p \in BinaryNodesUnder(tree, "None") :
              tree_to_str(p[1], p[2], FALSE, expr_result.op_mode) =
                  IF ShouldBracket(p[1], p[2])
                  THEN Bracketed(Bare(p[1], expr_result.op_mode))
                  ELSE Bare(p[1], expr_result.op_mode)

\* (2+3)*5 in every case: a binary node of lower priority on the left of its
\* parent, and a node of equal priority on each side of a parent of each direction
C15_Witness ==
    /\ Rendered
    /\ tree[1] = "binary" /\ tree[4][1] = "binary"
    /\ priority[tree[4][3]] < priority[tree[3]]
    /\ expr_result.str = Bracketed(Bare(tree[4], expr_result.op_mode)) \o <<tree[3]>>
                            \o tree_to_str(tree[5], tree[3], FALSE, expr_result.op_mode)

BinaryOnly(node) == \A n \in Nodes(node) : n[1] # "unary"

\* C16: two trees of binary operators whose minimal-bracket renderings are
\* equal have the same structure, whatever priorities and directions the
\* operators carry.
C16_EqualRenderingsSameStructure ==
    (Rendered /\ BinaryOnly(tree)) =>
        \A other \in Trees(MaxApps, RenderBinary, {}, NumberLeaves) :
            tree_to_str(other, "None", FALSE, expr_result.op_mode) = expr_result.str
                => other = tree

\* ------------------------------------------------------ generation claims
UnaryPosition(operator) ==
    IF operator \in GenUnaryPrefix THEN "prefix"
    ELSE IF operator \in GenUnaryPostfix THEN "postfix"
    ELSE "None"

\* C17: generate returns a node whatever category is drawn: a binary node for
\* binary, a unary node over an operator of the drawn fixedness with its child
\* tagged unary for unary_prefix and unary_postfix, an atom for atoms.
C17_GenerateReturnsNodeOfDrawnKind ==
    (last.op = "generate_expression" /\ last.expr_type # "none") =>
        /\ IsNode(expr_result)
        /\ last.expr_type = "binary" => expr_result[1] = "binary"
        /\ last.expr_type = "atoms" => expr_result[1] \in {"number", "variable"}
        /\ last.expr_type \in {"unary_prefix", "unary_postfix"} =>
              /\ expr_result[1] = "unary"
              /\ "unary_" \o UnaryPosition(expr_result[3]) = last.expr_type
              /\ expr_result[4][2] = "unary"

\* the number of operator applications on the longest root-to-leaf path
RECURSIVE Depth(_)
Depth(node) ==
    CASE node[1] = "binary" -> 1 + Max({Depth(node[4]), Depth(node[5])})
      [] node[1] = "unary" -> 1 + Depth(node[4])
      [] OTHER -> 0

\* C18: a tree that generate(cur_depth, max_depth, policy) returns nests at
\* most max_depth - cur_depth operator applications (max_depth for
\* cur_depth = 0), and the call returns an atom of the policy's kind when
\* cur_depth >= max_depth.
C18_DepthBoundedByMaxDepth ==
    (last.op = "generate_expression" /\ IsNode(expr_result)) =>
        /\ Depth(expr_result) <= Max({last.arg - last.cur_depth, 0})
        /\ last.cur_depth >= last.arg =>
              /\ expr_result[1] \in {"number", "variable"}
              /\ last.atom_choice = "variable" => expr_result[1] = "variable"
              /\ last.atom_choice = "number" => expr_result[1] = "number"

C18_Witness ==
    /\ last.op = "generate_expression" /\ IsNode(expr_result)
    /\ last.cur_depth = 0 /\ last.arg = MaxDepth
    /\ Depth(expr_result) = MaxDepth
    /\ expr_result[1] = "binary" /\ expr_result[4][1] = "unary"

\* ---------------------------------------------------- add_operator claims
IdIsGiven == last.has_id /\ ~IsNone(last.arg)

\* C19: add_operator with no id assigns the id get_next_operator_id returns
\* in the same state, 1 for an empty registry and the largest id plus 1
\* otherwise, an id not in use; it stores the record under that id and returns
\* it with n_order None, whatever n_order the data carried.
C19_AddAssignsNextUnusedId ==
    (last.op = "add_operator" /\ ~IdIsGiven) =>
        /\ last.ok
        /\ last.returned.id = GetNextOperatorId(pre)
        /\ last.returned.id = IF DOMAIN pre = {} THEN 1
                              ELSE (CHOOSE m \in DOMAIN pre : \A k \in DOMAIN pre : k <= m) + 1
        /\ last.returned.id \notin DOMAIN pre
        /\ DOMAIN operators = DOMAIN pre \cup {last.returned.id}
        /\ operators[last.returned.id] = last.returned
        /\ \A k \in DOMAIN pre : operators[k] = pre[k]
        /\ IsNone(last.returned.n_order)

\* an id is assigned in a registry that has a gap below its largest id, to a
\* record whose data carried an order
C19_Witness ==
    /\ last.op = "add_operator" /\ ~IdIsGiven /\ last.ok
    /\ ~IsNone(last.n_order)
    /\ \E k \in 1..last.returned.id : k \notin DOMAIN operators
    /\ DOMAIN pre # {}

\* C20: add_operator with an id the registry holds raises the already-exists
\* ValueError and leaves the id index, the symbol index, the base index and
\* the record that holds the id as they were.
C20_DuplicateIdRejected ==
    [][(last'.op = "add_operator" /\ last'.has_id /\ ~IsNone(last'.arg)
            /\ Val(last'.arg) \in DOMAIN operators) =>
          /\ ~last'.ok
          /\ last'.raised = "ValueError"
          /\ UNCHANGED <<operators, symbol_to_operators, base_operators>>]_vars

\* a duplicate id is refused in a registry whose base index is not empty
C20_Witness ==
    /\ last.op = "add_operator" /\ IdIsGiven /\ last.raised = "ValueError"
    /\ Val(last.arg) \in DOMAIN operators
    /\ base_operators # {}

\* ------------------------------------------------------- registry claims

RegFailing == {"remove_operator", "get_operator_by_id", "delete_one_operator",
               "extract_op_dependencies"}

\* C21: after remove_operator of an operator the registry holds, the removed
\* record is in no index (not under its id, not under its symbol, not under
\* its numeral base) and its compute and count functions are no longer in the
\* callable cache; every other record is as it was.
C21_RemovedFromEveryIndex ==
    (last.op = "remove_operator" /\ last.ok) =>
        /\ last.arg \notin DOMAIN operators
        /\ last.returned.uid \notin Uids(operators)
        /\ last.returned.uid \notin symbol_to_operators
        /\ \A p \in base_operators : p[2] # last.returned.uid
        /\ last.arg \notin available_funcs
        /\ \A k \in (DOMAIN pre) \ {last.arg} : k \in DOMAIN operators /\ operators[k] = pre[k]

\* C22: get_operator_by_id, remove_operator, delete_one_operator and
\* extract_op_dependencies, called with an id the registry does not hold,
\* raise the not-found ValueError and leave the id index, the symbol index,
\* the base index and the callable cache as they were.
C22_UnknownIdRaisesAndChangesNothing ==
    [][(last'.op \in RegFailing /\ last'.arg \notin DOMAIN operators) =>
          /\ ~last'.ok
          /\ last'.raised = "ValueError"
          /\ UNCHANGED <<operators, symbol_to_operators, available_funcs, base_operators>>]_vars

\* delete_one_operator has failed on a registry whose ids have a gap, one
\* that a renumbering would close
C22_Witness ==
    /\ last.op = "delete_one_operator"
    /\ ~last.ok
    /\ last.arg = 2
    /\ DOMAIN operators = {1, 3}

\* C23: extract_op_dependencies(op_id) stores exactly the distinct operator
\* ids that the compute text names, op_id itself left out and no id twice; no
\* other field of the operator, no other operator and no index changes.
C23_ExtractStoresDistinctReferences ==
    [][(last'.op = "extract_op_dependencies" /\ last'.ok) =>
          LET op_id == last'.arg
              src == operators[op_id].op_compute_func
              referenced == ({src.hdr} \cup src.calls) \ {op_id}
          IN /\ Range(last'.returned) = referenced
             /\ Len(last'.returned) = Cardinality(referenced)
             /\ operators' = [operators EXCEPT ![op_id].dependencies = referenced,
                                               ![op_id].deps_set = TRUE]
             /\ UNCHANGED <<symbol_to_operators, available_funcs, base_operators>>]_vars

\* the dependencies of an operator whose text names two others were extracted
C23_Witness ==
    /\ last.op = "extract_op_dependencies"
    /\ last.ok
    /\ last.arg = 3
    /\ Len(last.returned) = 2
    /\ operators[3].dependencies = {1, 2}

NoRepeats(seq) == \A i, j \in DOMAIN seq : seq[i] = seq[j] => i = j

\* C24: get_unary_and_binary_operators returns three lists, unary prefix,
\* unary postfix and binary, that share no operator, hold every operator that
\* is not a numeral-base operator exactly once, and hold no numeral-base
\* operator.
C24_PoolsPartitionNonBaseOperators ==
    (last.op = "get_unary_and_binary_operators") =>
        LET prefix == last.returned.unary_prefix_ops
            postfix == last.returned.unary_postfix_ops
            binary == last.returned.binary_ops
        IN /\ NoRepeats(prefix \o postfix \o binary)
           /\ Range(prefix \o postfix \o binary) =
                 {operators[k].uid : k \in {j \in DOMAIN operators : IsNone(operators[j].is_base)}}

\* ------------------------------------------------------ evaluator claims

\* the operators of the application nodes of a tree, root first
RECURSIVE OperatorsOf(_)
OperatorsOf(node) ==
    CASE node[1] = "binary" -> <<node[3]>> \o OperatorsOf(node[4]) \o OperatorsOf(node[5])
      [] node[1] = "unary" -> <<node[3]>> \o OperatorsOf(node[4])
      [] OTHER -> <<>>
TimesUsed(node, operator) ==
    Cardinality({i \in DOMAIN OperatorsOf(node) : OperatorsOf(node)[i] = operator})

\* C25: after init_expr, in op_mode or not, operation_count is the number of
\* unary and binary application nodes of the tree, and all_operators gives
\* for each operator of the tree the number of nodes that apply it.
C25_CountsAfterInitExpr ==
    (last.op = "init_expr") =>
        /\ expr_result.operation_count = Len(OperatorsOf(tree))
        /\ DOMAIN expr_result.all_operators = Range(OperatorsOf(tree))
        /\ \A operator \in DOMAIN expr_result.all_operators :
              expr_result.all_operators[operator] = TimesUsed(tree, operator)

\* C30: the normalized expansion degree and the result an evaluator reports
\* are those of the fold of the tree it was last given by init_expr, however
\* many expressions it has been given before and however often it is asked.
C30_ReportedPairIsOfLatestTree ==
    /\ (last.op = "calculate_result" /\ last.ok) =>
          last.returned = calculate_normalized_expansion_degree_node(tree).result
    /\ (last.op = "calculate_normalized_expansion_degree" /\ last.ok) =>
          last.returned = calculate_normalized_expansion_degree_node(tree).degree

\* ----------------------------------------------------------- fold claims, continued

\* the value of a tree without variables: a literal is its integer, an
\* application is the operator's compute procedure on the children's values
RECURSIVE ValueOf(_)
ValueOf(node) ==
    CASE node[1] = "number" -> Some(node[3])
      [] node[1] = "unary" -> get_compute_function(node[3], <<ValueOf(node[4])>>)
      [] node[1] = "binary" ->
            get_compute_function(node[3], <<ValueOf(node[4]), ValueOf(node[5])>>)

\* no application node of the tree has a compute or a count procedure that
\* returns NaN on the values of its children
RECURSIVE ReturnsNoNaN(_)
ReturnsNoNaN(node) ==
    CASE node[1] = "unary" ->
            /\ ReturnsNoNaN(node[4])
            /\ get_compute_function(node[3], <<ValueOf(node[4])>>) # NaN
            /\ get_count_function(node[3], <<ValueOf(node[4])>>) # NaN
      [] node[1] = "binary" ->
            /\ ReturnsNoNaN(node[4])
            /\ ReturnsNoNaN(node[5])
            /\ get_compute_function(node[3], <<ValueOf(node[4]), ValueOf(node[5])>>) # NaN
            /\ get_count_function(node[3], <<ValueOf(node[4]), ValueOf(node[5])>>) # NaN
      [] OTHER -> TRUE

\* the sum, over the application nodes, of the operator's count procedure on
\* the values of the node's children
RECURSIVE CostOf(_)
CostOf(node) ==
    CASE node[1] = "unary" ->
            Val(get_count_function(node[3], <<ValueOf(node[4])>>)) + CostOf(node[4])
      [] node[1] = "binary" ->
            Val(get_count_function(node[3], <<ValueOf(node[4]), ValueOf(node[5])>>))
               + CostOf(node[4]) + CostOf(node[5])
      [] OTHER -> 0

\* C26: for a tree without variables in which no procedure returns NaN, the
\* fold returns as result the compute procedures applied bottom-up to the
\* children's values (a literal being its integer, at degree 0) and as degree
\* the sum over all application nodes of the count procedure on the values of
\* the node's children.
C26_FoldIsRecursiveApplication ==
    (last.op = "fold" /\ ~HasVariable(tree) /\ ReturnsNoNaN(tree)) =>
        /\ expr_result.raised = "none"
        /\ expr_result.result = ValueOf(tree)
        /\ expr_result.degree = Some(CostOf(tree))

\* a unary application over another application was folded, both at a cost
C26_Witness ==
    /\ last.op = "fold"
    /\ ~HasVariable(tree)
    /\ ReturnsNoNaN(tree)
    /\ tree[1] = "unary"
    /\ tree[4][1] \in {"unary", "binary"}
    /\ CostOf(tree[4]) > 0
    /\ CostOf(tree) > CostOf(tree[4])

BaseEntries(base) == {p \in base_operators : p[1] = base}
HoldsNoBase(ops) == \A k \in DOMAIN ops : IsNone(ops[k].is_base)

\* C27: after generate_base_operators on a registry without base operators,
\* every base in 2..max_base has exactly one operator in base_operators, a
\* unary prefix operator without definition and procedures whose symbol no
\* other operator has; and in every state the registry calls reach, no base
\* has more than one operator, so that NumberNode.to_str of a base that has
\* one does not fail.
C27_OneOperatorPerBase ==
    /\ (last.op = "generate_base_operators" /\ HoldsNoBase(pre)) =>
          \A base \in 2..MaxBase :
             /\ Cardinality(BaseEntries(base)) = 1
             /\ \A p \in BaseEntries(base) :
                   /\ p[2] \in Uids(operators)
                   /\ LET op == operators[KeyOf(operators, p[2])] IN
                       /\ IsUnaryAt(op, "prefix")
                       /\ op.is_base = Some(base)
                       /\ op.definition_type = "None"
                       /\ ~op.op_compute_func.present
                       /\ ~op.op_count_func.present
                       /\ \A k \in DOMAIN operators :
                             operators[k].symbol = op.symbol => operators[k].uid = op.uid
    /\ \A base \in 2..MaxBase : Cardinality(BaseEntries(base)) <= 1
    /\ (last.op = "to_str" /\ BaseEntries(last.arg) # {}) => last.ok

\* ------------------------------------------------ draw-by-draw claims

OperatorPools == binary_ops \cup unary_prefix_ops \cup unary_postfix_ops

\* C28: generate_expression never fails because the category it drew has an
\* empty pool, it draws again at the same depth; and with fair draws and a
\* positive weight for atoms it returns, at some time, a tree none of whose
\* operators is from an empty pool.
C28_RedrawsUntilATreeIsReturned ==
    /\ [](expr_result # RecursionError)
    /\ <>(/\ last.op = "generate_expression"
          /\ IsNode(expr_result)
          /\ \A n \in Nodes(expr_result) :
                n[1] \in {"unary", "binary"} => n[3] \in OperatorPools)

\* ------------------------------------------------ statement-level claims

\* the operators that have passed the syntax check and the run on the test
\* inputs: those the batch loaded, those it has written to the temp file, and
\* the one whose order could not be computed after it had passed
PassedValidation ==
    Uids(BatchStore) \cup Range(temp_file)
        \cup (IF last.op = "order_raised" THEN {last.cr.data.uid} ELSE {})

\* C29: in every state of a generation batch, an operator of the registry
\* that is not a base operator and whose is_temporary is False has passed the
\* syntax check and the executability check; is_temporary is not set to False
\* on a candidate before both have succeeded.
C29_NotTemporaryMeansValidated ==
    \A k \in DOMAIN operators :
        (IsNone(operators[k].is_base) /\ ~operators[k].is_temporary) =>
            operators[k].uid \in PassedValidation

\* ------------------------------------------------ rendering-mode claims

\* C31: an expression that create_expression produces is rendered by the
\* minimal-bracket rule, whether or not create_expression_str, which renders
\* with all brackets, was called on the same generator before.
C31_CreateExpressionRendersMinimalBrackets ==
    (last.op = "create_expression") =>
        expr_result.expression_str = tree_to_str(tree, "None", FALSE, FALSE)

\* the operand's rendering with the symbol put where the left-hand side of the
\* operator's definition puts it
PlacedAsDefined(operator, operand) ==
    LET lhs == generate_lhs(operator, "unary", unary_position(operator))
    IN  IF lhs[1] = operator THEN <<operator>> \o operand ELSE operand \o <<operator>>

\* C39: a unary application is rendered with the operator symbol before the
\* operand when the operator is prefix and after the operand when it is
\* postfix, as the left-hand side of the operator's definition has it.
C39_UnarySymbolPlacedByFixedness ==
    (last.op = "tree_to_str" /\ tree[1] = "unary") =>
        LET operand == tree_to_str(tree[4], tree[3], with_all_brackets,
                                   expr_result.op_mode)
            placed == PlacedAsDefined(tree[3], operand)
        IN  expr_result.str \in {placed, Bracketed(placed)}


\* C40: the indices of the registry agree: the records listed in the symbol
\* index are exactly the records stored in the id index, each under its own
\* id, and every record of the numeral-base index is in the id index.
C40_IndicesAgree ==
    /\ symbol_to_operators = Uids(operators)
    /\ \A k \in DOMAIN operators : operators[k].id = k
    /\ \A p \in base_operators : p[2] \in Uids(operators)
\* --------------------------------------------------- callable-table claims

\* the record whose callable the table holds under the names op_k and
\* op_count_k: load_operators registered the callable of the record loaded
\* with id k, and delete_one_operator registers nothing
RegisteredUnder(k) == k

\* C33: the name-to-callable table holds, for every operator of the registry
\* that has procedures, the callable of that operator under the name of its
\* current id, and holds no name of an id that is not in the registry.
C33_TableFollowsTheIds ==
    /\ \A k \in DOMAIN operators :
          operators[k].op_compute_func.present =>
              k \in available_funcs /\ RegisteredUnder(k) = operators[k].uid
    /\ available_funcs \subseteq DOMAIN operators

\* ------------------------------------------- delete_cascade on any registry

\* C38: delete_cascade of an id the registry holds completes without error,
\* also on a registry that holds operators whose dependency set is unset.
C38_DeleteCascadeOfKnownIdCompletes ==
    (last.op = "delete_one_operator" /\ last.arg \in DOMAIN pre) => last.ok

\* ------------------------------------------------------------ pool claims

AppliedOperators(node) == {n[3] : n \in {m \in Nodes(node) : m[1] \in {"unary", "binary"}}}

\* C32: every tree that create_expression or create_expression_str builds
\* applies only operators that are in the registry when the call is made and
\* that are no numeral-base operators.
C32_TreesApplyRegisteredNonBaseOperators ==
    (last.op \in {"create_expression", "create_expression_str"} /\ last.ok) =>
        \A o \in AppliedOperators(tree) :
            /\ o \in Uids(operators)
            /\ IsNone(operators[KeyOf(operators, o)].is_base)

\* ------------------------------------------- recursion-safety claims, continued

\* the bits of the cases generate_recursive_operator_data_by_loop can ask for
\* on a callee: its caller is always binary
ProducibleBits(o) ==
    IF o.n_ary = 2 THEN {Val(BitOfCase("binary", 2, po)) : po \in LoopParamOrders}
    ELSE {Val(BitOfCase("binary", 1, NoParamOrder))}

HasClearProducibleBit(o) ==
    \E b \in ProducibleBits(o) : ~BitIsSet(o.recursive_used_cases, b)


\* the caller kinds whose case over a callee of arity n_ary is kept in bit b
CallersOfBit(n_ary, b) ==
    {t \in OpTypes : \E po \in ParamOrders : BitOfCase(t, n_ary, po) = Some(b)}

\* an accepted recursive operator of a caller kind that loops over operator k
LoopsOver(j, k, callers) ==
    /\ operators[j].definition_type = "recursive_definition"
    /\ ~operators[j].is_temporary
    /\ operators[j].op_compute_func.present
    /\ k \in operators[j].op_compute_func.calls
    /\ (IF operators[j].n_ary = 2 THEN "binary" ELSE "unary") \in callers

\* C34: in every state of a batch a bit of an operator's recursion-usage
\* bitmask is set only if the registry holds an accepted recursive-by-loop
\* operator that uses the case of that bit over that operator; the bit of a
\* candidate that validation rejected does not stay set.
C34_SetBitHasAnAcceptedUser ==
    \A k \in DOMAIN operators : \A b \in 0..7 :
        BitIsSet(operators[k].recursive_used_cases, b) =>
            \E j \in DOMAIN operators :
                LoopsOver(j, k, CallersOfBit(operators[k].n_ary, b))
\* C35: when a callee is selected for a recursive-by-loop candidate, a case
\* the generator can produce for it still has its bit clear; an operator whose
\* every producible case is used has is_recursion_enabled false; so repeated
\* synthesis, time and again, produces a candidate or reports that no callee
\* is available.
C35_SelectedCalleeHasAFreeCase ==
    /\ [](last.op = "generate_loop" => HasClearProducibleBit(pre[last.arg]))
    /\ [](\A k \in DOMAIN operators :
              ~HasClearProducibleBit(operators[k]) => ~operators[k].is_recursion_enabled)
    /\ []<>(\/ last.op = "generate_loop" /\ last.ret = "data"
            \/ last.op = "get_random" /\ ~last.ok)

\* C36: the callee chosen for a recursive-by-loop candidate is an accepted
\* operator with a compute procedure and a cost procedure: no numeral-base
\* operator and no candidate that has not passed validation.
C36_CalleeIsAcceptedWithProcedures ==
    (last.op \in {"get_random", "generate_loop"} /\ last.ok) =>
        /\ IsNone(pre[last.arg].is_base)
        /\ ~pre[last.arg].is_temporary
        /\ pre[last.arg].op_compute_func.present
        /\ pre[last.arg].op_count_func.present

\* ------------------------------------------------ batch claims, continued

====
